---- MODULE Spec2Model ----
(***************************************************************************)
(* MyLocalBoard: the operation store (package state: BoardState, Apply,    *)
(* Strokes, Save, Load, snapshot, restore).                                *)
(*                                                                         *)
(* Spec         one store under Apply and Load of arbitrary files.         *)
(* PersistSpec  one store under Apply, Save and Load of the saved file.    *)
(* PairSpec     two independent stores that receive the same operations,   *)
(*              reordered or with one of them delivered twice.             *)
(***************************************************************************)
EXTENDS Integers, Sequences, FiniteSets, TLC

\* ---------------------------------------------------------------- bounds
MaxTime == 2   \* Stroke.Time ranges over the instants 1..MaxTime
MaxArr == 2    \* longest stroke array in a file that Save did not write

\* ------------------------------------------------------------ data model
IDs == {"", "a", "b"}            \* Stroke.ID; "" is the empty ID
Times == 1..MaxTime
Colors == {"nil", "black"}       \* color.Color: nil interface or color.Black

\* type Stroke struct (Points and Width are payload no store code reads)
Stroke == [ID : IDs, Time : Times, Color : Colors]

OpInsertStroke == "insert_stroke"
OpDeleteStroke == "delete_stroke"

\* type Op struct; Stroke is a pointer: <<>> is nil, <<st>> points to st.
\* Lamport and Site are carried by the Go struct but never read by the store.
Op == [Type : {OpInsertStroke, OpDeleteStroke, "noop"},
       Stroke : {<<>>} \cup {<<st>> : st \in Stroke},
       Target : IDs]

InsertOp(st) == [Type |-> OpInsertStroke, Stroke |-> <<st>>, Target |-> ""]
DeleteOp(id) == [Type |-> OpDeleteStroke, Stroke |-> <<>>, Target |-> id]
NilInsertOp == [Type |-> OpInsertStroke, Stroke |-> <<>>, Target |-> ""]
OtherOp == [Type |-> "noop", Stroke |-> <<>>, Target |-> ""]

\* the operations the store is driven with
Ops == {InsertOp(st) : st \in Stroke} \cup {DeleteOp(id) : id \in IDs}
         \cup {NilInsertOp, OtherOp}

\* ------------------------------------------------------------ BoardState
Put(m, k, v) == [x \in (DOMAIN m) \cup {k} |-> IF x = k THEN v ELSE m[x]]
Drop(m, k) == [x \in (DOMAIN m) \ {k} |-> m[x]]

NewBoardState == [strokes |-> [x \in {} |-> x], order |-> <<>>]

Rejected(s) == [strokes |-> s.strokes, order |-> s.order, ret |-> FALSE]

\* ApplyInsert without the lookup of the ID: every insert is stored
ApplyInsertNoLookup(s, op) ==
  IF op.Stroke = <<>> THEN Rejected(s)
  ELSE IF op.Stroke[1].ID = "" THEN Rejected(s)
  ELSE [strokes |-> Put(s.strokes, op.Stroke[1].ID, op.Stroke[1]),
        order |-> Append(s.order, op.Stroke[1].ID),
        ret |-> TRUE]

\* ApplyInsert storing the stroke before it looks the ID up: a second insert
\* of an ID is refused but has replaced the content
ApplyInsertLastWriter(s, op) ==
  IF op.Stroke = <<>> THEN Rejected(s)
  ELSE IF op.Stroke[1].ID = "" THEN Rejected(s)
  ELSE IF op.Stroke[1].ID \in DOMAIN s.strokes
       THEN [strokes |-> Put(s.strokes, op.Stroke[1].ID, op.Stroke[1]),
             order |-> s.order,
             ret |-> FALSE]
       ELSE [strokes |-> Put(s.strokes, op.Stroke[1].ID, op.Stroke[1]),
             order |-> Append(s.order, op.Stroke[1].ID),
             ret |-> TRUE]

\* ApplyInsert looking the stroke up by its timestamp instead of its ID
ApplyInsertByTime(s, op) ==
  IF op.Stroke = <<>> THEN Rejected(s)
  ELSE IF op.Stroke[1].ID = "" THEN Rejected(s)
  ELSE IF \E k \in DOMAIN s.strokes : s.strokes[k].Time = op.Stroke[1].Time
       THEN Rejected(s)
       ELSE [strokes |-> Put(s.strokes, op.Stroke[1].ID, op.Stroke[1]),
             order |-> Append(s.order, op.Stroke[1].ID),
             ret |-> TRUE]

\* case OpInsertStroke of Apply
ApplyInsert(s, op) ==
  IF op.Stroke = <<>> THEN Rejected(s)
  ELSE IF op.Stroke[1].ID = "" THEN Rejected(s)
  ELSE IF op.Stroke[1].ID \in DOMAIN s.strokes THEN Rejected(s)
  ELSE [strokes |-> Put(s.strokes, op.Stroke[1].ID, op.Stroke[1]),
        order |-> Append(s.order, op.Stroke[1].ID),
        ret |-> TRUE]

\* ApplyDelete leaving an entry for a target it did not find
ApplyDeleteTombstone(s, op) ==
  IF op.Target = "" THEN Rejected(s)
  ELSE IF op.Target \notin DOMAIN s.strokes
       THEN [strokes |-> Put(s.strokes, op.Target,
                             [ID |-> op.Target, Time |-> 1, Color |-> "nil"]),
             order |-> s.order,
             ret |-> FALSE]
       ELSE [strokes |-> Drop(s.strokes, op.Target),
             order |-> SelectSeq(s.order, LAMBDA id : id # op.Target),
             ret |-> TRUE]

\* case OpDeleteStroke of Apply
ApplyDelete(s, op) ==
  IF op.Target = "" THEN Rejected(s)
  ELSE IF op.Target \notin DOMAIN s.strokes THEN Rejected(s)
  ELSE [strokes |-> Drop(s.strokes, op.Target),
        order |-> SelectSeq(s.order, LAMBDA id : id # op.Target),
        ret |-> TRUE]

\* Apply without the default case of the switch: an operation of another
\* kind falls through to return true
ApplyNoDefault(s, op) ==
  CASE op.Type = OpInsertStroke -> ApplyInsert(s, op)
    [] op.Type = OpDeleteStroke -> ApplyDelete(s, op)
    [] OTHER -> [strokes |-> s.strokes, order |-> s.order, ret |-> TRUE]

Apply(s, op) ==
  CASE op.Type = OpInsertStroke -> ApplyInsert(s, op)
    [] op.Type = OpDeleteStroke -> ApplyDelete(s, op)
    [] OTHER -> Rejected(s)

\* sort.SliceStable with less(i, j) = out[i].Time.Before(out[j].Time):
\* insertion sort, an element moves left only past strictly later ones
RECURSIVE InsertStable(_, _)
InsertStable(sorted, x) ==
  IF sorted = <<>> THEN <<x>>
  ELSE IF x.Time < sorted[Len(sorted)].Time
       THEN Append(InsertStable(SubSeq(sorted, 1, Len(sorted) - 1), x),
                   sorted[Len(sorted)])
       ELSE Append(sorted, x)

RECURSIVE SliceStable(_)
SliceStable(out) ==
  IF out = <<>> THEN <<>>
  ELSE InsertStable(SliceStable(SubSeq(out, 1, Len(out) - 1)), out[Len(out)])

\* the loop of Strokes(): the stored stroke of every id of the order list
RECURSIVE Collect(_, _)
Collect(s, ids) ==
  IF ids = <<>> THEN <<>>
  ELSE IF Head(ids) \in DOMAIN s.strokes
       THEN <<s.strokes[Head(ids)]>> \o Collect(s, Tail(ids))
       ELSE Collect(s, Tail(ids))

Strokes(s) == SliceStable(Collect(s, s.order))

\* ----------------------------------------------------------- persistence
\* A file is missing, unreadable, bytes that are no JSON array of stroke
\* records ("garbage"), or a JSON array ("json", doc = its records).
NoFile == [kind |-> "missing", doc |-> <<>>]
Unreadable == [kind |-> "unreadable", doc |-> <<>>]
Garbage == [kind |-> "garbage", doc |-> <<>>]

\* json.Marshal of one Stroke: Time becomes an RFC 3339 string, a nil Color
\* becomes null and color.Black (color.Gray16) becomes the object {"Y":0}
MarshalStroke(st) ==
  [ID |-> st.ID,
   Time |-> <<"rfc3339", st.Time>>,
   Color |-> IF st.Color = "nil" THEN "null" ELSE "object"]

MarshalIndent(all) ==
  [kind |-> "json", doc |-> [i \in 1..Len(all) |-> MarshalStroke(all[i])]]

JSONRecord == [ID : IDs, Time : {<<"rfc3339", t>> : t \in Times},
               Color : {"null", "object"}]

\* json.Unmarshal(b, &loaded): a syntax error, or a JSON object where the
\* field has the interface type color.Color, is an error; null is a nil Color
UnmarshalStroke(r) == [ID |-> r.ID, Time |-> r.Time[2], Color |-> "nil"]

Unmarshal(f) ==
  IF f.kind # "json" THEN [err |-> TRUE, loaded |-> <<>>]
  ELSE IF \E i \in 1..Len(f.doc) : f.doc[i].Color # "null"
       THEN [err |-> TRUE, loaded |-> <<>>]
       ELSE [err |-> FALSE,
             loaded |-> [i \in 1..Len(f.doc) |-> UnmarshalStroke(f.doc[i])]]

snapshot(g) == Strokes(g)

RECURSIVE restoreLoop(_, _)
restoreLoop(g, rest) ==
  IF rest = <<>> THEN g
  ELSE restoreLoop([strokes |-> Put(g.strokes, Head(rest).ID, Head(rest)),
                    order |-> Append(g.order, Head(rest).ID)],
                   Tail(rest))

restore(loaded) == restoreLoop(NewBoardState, loaded)

\* Load calling restore before it looks at the error of json.Unmarshal
LoadRestoresFirst(g, f) ==
  IF f.kind \in {"missing", "unreadable"}
  THEN [strokes |-> g.strokes, order |-> g.order, ret |-> "err"]
  ELSE LET u == Unmarshal(f)
           r == restore(u.loaded)
       IN [strokes |-> r.strokes, order |-> r.order,
           ret |-> IF u.err THEN "err" ELSE "nil"]

\* Load(path) on store g where the file at path is f
Load(g, f) ==
  IF f.kind \in {"missing", "unreadable"}
  THEN [strokes |-> g.strokes, order |-> g.order, ret |-> "err"]
  ELSE LET u == Unmarshal(f)
           r == restore(u.loaded)
       IN IF u.err
          THEN [strokes |-> g.strokes, order |-> g.order, ret |-> "err"]
          ELSE [strokes |-> r.strokes, order |-> r.order, ret |-> "nil"]

\* Save(path): the bytes handed to os.WriteFile
Save(g) == MarshalIndent(snapshot(g))

\* files a user can hand to Load besides the one Save wrote: missing,
\* unreadable, not JSON, an array holding a record with a color object, or an
\* array of at most MaxArr records without a color (their Time is the earliest
\* or the latest instant)
RECURSIVE SeqsUpTo(_, _)
SeqsUpTo(S, n) ==
  IF n = 0 THEN {<<>>}
  ELSE SeqsUpTo(S, n - 1) \cup
       {Append(q, x) : q \in {p \in SeqsUpTo(S, n - 1) : Len(p) = n - 1}, x \in S}

FileTimes == {1, MaxTime}
PlainRecords ==
  {r \in JSONRecord : r.Color = "null" /\ r.Time[2] \in FileTimes}
Files ==
  {NoFile, Unreadable, Garbage}
    \cup {[kind |-> "json", doc |-> d] : d \in SeqsUpTo(PlainRecords, MaxArr)}
    \cup {[kind |-> "json", doc |-> <<r>>] : r \in JSONRecord}

\* ---------------------------------------------------------- wire format
\* json.Marshal(op) in Broadcast: the Stroke pointer becomes null (<<>>) or
\* the stroke's object
MarshalOp(op) ==
  [Type |-> op.Type,
   Stroke |-> IF op.Stroke = <<>> THEN <<>> ELSE <<MarshalStroke(op.Stroke[1])>>,
   Target |-> op.Target]

\* json.Unmarshal(r.Bytes(), &op) in handleConn: as for a file, a stroke
\* whose Color is a JSON object cannot be decoded
UnmarshalOp(m) ==
  IF m.Stroke = <<>>
  THEN [err |-> FALSE,
        op |-> [Type |-> m.Type, Stroke |-> <<>>, Target |-> m.Target]]
  ELSE IF m.Stroke[1].Color # "null"
       THEN [err |-> TRUE, op |-> [Type |-> "", Stroke |-> <<>>, Target |-> ""]]
       ELSE [err |-> FALSE,
             op |-> [Type |-> m.Type,
                     Stroke |-> <<UnmarshalStroke(m.Stroke[1])>>,
                     Target |-> m.Target]]

\* the callback the Transport is given: the decoded operation goes to the
\* store's Apply
OnRemoteOp(s, op) == [strokes |-> Apply(s, op).strokes, order |-> Apply(s, op).order]

\* one round of the loop of handleConn on a scanned line
handleLine(s, line) ==
  LET u == UnmarshalOp(line)
  IN IF u.err THEN s ELSE OnRemoteOp(s, u.op)

\* the invocations of t.OnRemoteOp after handleConn scanned the line
firedBy(s, fired, line) ==
  LET u == UnmarshalOp(line)
  IN IF u.err THEN fired
     ELSE Append(fired, [op |-> u.op, applied |-> Apply(s, u.op).ret])

\* -------------------------------------------------- origin and its peers
NPeers == 2                  \* peers the origin is connected to
MaxLocal == 2                \* local draws of the origin
PeerIDs == 1..NPeers

\* store   the origin's BoardState
\* sent    the operations the origin emitted
\* wire    per peer, the lines written to it and not yet read by it
\* back    the lines peers wrote to the origin, not yet read by it
\* echoed  the stroke IDs whose insert came back and was read
\* fired   the invocations of t.OnRemoteOp by handleConn: the operation and
\*         what Apply returns for it
EchoInit ==
  [store |-> NewBoardState, sent |-> <<>>,
   wire |-> [p \in PeerIDs |-> <<>>], back |-> <<>>, echoed |-> {},
   fired |-> <<>>]

\* ------------------------------------------------------- peer registries
\* The three registries with a Broadcast: Transport (part_001, a Mutex),
\* PeerManager (part_001, a RWMutex) and ConnectionManager (main.go, a
\* RWMutex).
Impls == {"Transport", "PeerManager", "ConnectionManager"}
MaxRegConns == 3             \* connections a registry sees in a run
RegConns == 1..MaxRegConns

\* peers     the connections in the registry map
\* open      connections this process has not closed
\* loops     connections whose read loop is running
\* added     how many connections were accepted so far
\* lock      "free", or "held" by the Broadcast that is iterating
\* bc        the Broadcast: pc, the entries it has not reached (todo), the
\*           registry when it took the lock (start), the connection it was
\*           told to skip (exclude, 0 for none), writes per entry, ran
\* failed    the connections a Broadcast write failed on
\* removing  connections with a Remove call that waits for the lock
RegNew(impl) ==
  [impl |-> impl, peers |-> {}, open |-> {}, loops |-> {}, added |-> 0,
   lock |-> "free",
   bc |-> [pc |-> "idle", todo |-> {}, start |-> {}, exclude |-> 0,
           writes |-> [c \in {} |-> 0], ran |-> FALSE],
   failed |-> {}, removing |-> {}]

RegIdle == RegNew("Transport")

\* the body of the loop of Broadcast stopping at the first write error
WriteStepStopsOnError(r, c, ok) ==
  LET wrote == [r EXCEPT !.bc.writes[c] = r.bc.writes[c] + 1,
                         !.bc.todo = IF ok THEN r.bc.todo \ {c} ELSE {}]
  IN IF ok THEN wrote ELSE [wrote EXCEPT !.failed = r.failed \cup {c}]

\* the body of the loop of Broadcast for entry c, the write succeeding (ok)
\* or failing: Transport closes the connection and deletes the entry,
\* PeerManager starts a goroutine that calls Remove, ConnectionManager logs
WriteStep(r, c, ok) ==
  LET wrote == [r EXCEPT !.bc.writes[c] = r.bc.writes[c] + 1,
                         !.bc.todo = r.bc.todo \ {c}]
  IN IF ok THEN wrote
     ELSE CASE r.impl = "Transport" ->
                 [wrote EXCEPT !.failed = r.failed \cup {c},
                               !.open = r.open \ {c},
                               !.peers = r.peers \ {c}]
            [] r.impl = "PeerManager" ->
                 [wrote EXCEPT !.failed = r.failed \cup {c},
                               !.removing = r.removing \cup {c}]
            [] OTHER ->
                 [wrote EXCEPT !.failed = r.failed \cup {c}]

\* the deferred calls of a read loop that returns: handleConn closes the
\* connection; PeerManager.handleConnection calls Remove; handleHostConnection
\* calls connManager.Remove and then closes the connection
LoopReturns(r, c) ==
  IF r.impl = "Transport"
  THEN [r EXCEPT !.loops = r.loops \ {c}, !.open = r.open \ {c}]
  ELSE [r EXCEPT !.loops = r.loops \ {c}, !.removing = r.removing \cup {c}]

\* Remove under the write lock: PeerManager.Remove closes and deletes an
\* entry that exists; connManager.Remove deletes, the caller then closes
Remove(r, c) ==
  IF r.impl = "PeerManager" /\ c \notin r.peers
  THEN [r EXCEPT !.removing = r.removing \ {c}]
  ELSE [r EXCEPT !.removing = r.removing \ {c},
                 !.peers = r.peers \ {c},
                 !.open = r.open \ {c}]

\* -------------------------------------------- discovery and connecting
Procs == {"p", "q"}          \* two Transport processes on the LAN
MaxConns == 3                \* TCP connections made in a run
ListenPort == 8888           \* the port a Transport listens on and advertises

\* the address browse reports for process x, and the RemoteAddr() of the
\* k-th connection as its acceptor sees it (an ephemeral port of the dialer)
ListenAddr(x) == [host |-> x, port |-> ListenPort]
EphAddr(x, k) == [host |-> x, port |-> k]

\* peers    per process, t.peers: address -> connection (index into conns)
\* conns    the connections dialed so far: who dialed, who listens, and
\*          whether neither end has closed it
\* queue    per process, dialed connections its accept loop has not returned
\* found    per process, the address its browse callback has looked up and
\*          found missing, before it dials (<<>> when it is not in a callback)
DiscInit ==
  [peers |-> [x \in Procs |-> [a \in {} |-> 0]],
   conns |-> <<>>,
   queue |-> [x \in Procs |-> <<>>],
   found |-> [x \in Procs |-> <<>>]]

\* addPeer(addr, c)
addPeer(registry, addr, c) ==
  [a \in (DOMAIN registry) \cup {addr} |-> IF a = addr THEN c ELSE registry[a]]

\* ------------------------------------------------------------ read loops
\* The byte stream of a connection: messages, each followed by a newline.
\* A message is a JSON object of a known kind (Draw), a JSON object of a kind
\* the receiver does not know (Unknown), text that is no JSON value
\* (Truncated: an object cut short) or nothing at all (an empty line).
MaxMsgs == 3                 \* messages sent on the connection
ReadBuf == 4096              \* the size of tempBuf: most bytes one Read returns
ChanCap == 100               \* the capacity of PeerManager.Messages
Newline == "\n"
Draw == <<"{", "d", "}">>
Unknown == <<"{", "u", "}">>
Truncated == <<"{", "d">>
Messages == {Draw, Unknown, Truncated, <<>>}

\* the read loops of the repository
Loops == {"handleConn",      \* Transport.handleConn (bufio.Scanner)
          "hostNewline",     \* handleHostConnection of main.go
          "hostDecoder",     \* handleHostConnection of part_007 (json.Decoder)
          "peerManager",     \* PeerManager.handleConnection
          "clientNewline"}   \* connectToHost of main.go
NewlineLoops == {"hostNewline", "peerManager", "clientNewline"}

\* the bytes a sender writes for a sequence of messages
RECURSIVE Terminated(_)
Terminated(msgs) ==
  IF msgs = <<>> THEN <<>>
  ELSE Head(msgs) \o <<Newline>> \o Terminated(Tail(msgs))

Min(a, b) == IF a < b THEN a ELSE b

\* the inner loop without a buffer that survives the read: what follows the
\* last newline is thrown away
RECURSIVE FramesDropsRest(_)
FramesDropsRest(buf) ==
  IF \A i \in 1..Len(buf) : buf[i] # Newline
  THEN [lines |-> <<>>, rest |-> <<>>]
  ELSE LET i == CHOOSE k \in 1..Len(buf) :
                  buf[k] = Newline /\ \A j \in 1..(k - 1) : buf[j] # Newline
           r == FramesDropsRest(SubSeq(buf, i + 1, Len(buf)))
       IN [lines |-> <<SubSeq(buf, 1, i - 1)>> \o r.lines, rest |-> r.rest]

\* the inner loop of the newline-delimited read loops: every complete line
\* of the buffer, and the bytes after the last newline, which stay buffered
RECURSIVE Frames(_)
Frames(buf) ==
  IF \A i \in 1..Len(buf) : buf[i] # Newline
  THEN [lines |-> <<>>, rest |-> buf]
  ELSE LET i == CHOOSE k \in 1..Len(buf) :
                  buf[k] = Newline /\ \A j \in 1..(k - 1) : buf[j] # Newline
           r == Frames(SubSeq(buf, i + 1, Len(buf)))
       IN [lines |-> <<SubSeq(buf, 1, i - 1)>> \o r.lines, rest |-> r.rest]

\* json.Unmarshal of one line and the switch on the message type
Parse(line) ==
  IF line = Draw THEN "draw" ELSE IF line = Unknown THEN "unknown" ELSE "error"

\* json.Decoder.Decode called until it needs more bytes or fails: white space
\* between values is skipped, a value is returned when its closing brace has
\* arrived, and any other byte where the brace must be is a syntax error
RECURSIVE DecodeAll(_)
DecodeAll(buf) ==
  IF buf = <<>> THEN [vals |-> <<>>, rest |-> <<>>, err |-> FALSE]
  ELSE IF buf[1] = Newline THEN DecodeAll(Tail(buf))
  ELSE IF buf[1] # "{" THEN [vals |-> <<>>, rest |-> buf, err |-> TRUE]
  ELSE LET close == {k \in 3..Len(buf) : buf[k] # Newline}
       IN IF Len(buf) < 2 \/ close = {}
          THEN [vals |-> <<>>, rest |-> buf, err |-> FALSE]
          ELSE LET k == CHOOSE c \in close : \A j \in close : c <= j
               IN IF buf[2] \notin {"d", "u"} \/ buf[k] # "}"
                  THEN [vals |-> <<>>, rest |-> buf, err |-> TRUE]
                  ELSE LET r == DecodeAll(SubSeq(buf, k + 1, Len(buf)))
                       IN [vals |-> <<<<"{", buf[2], "}">>>> \o r.vals,
                           rest |-> r.rest, err |-> r.err]

\* kind     which read loop
\* sent     the messages the remote side wrote
\* wire     the bytes not yet returned by a Read
\* buffer   the bytes read and not yet framed
\* framed   the messages the loop has cut out of the stream
\* chan     PeerManager.Messages: the messages queued for the consumer,
\*          those of the other connections included
\* occ      for each framed message of PeerManager, the number of messages
\*          the channel held when the loop offered it
\* taken    the messages of this connection the consumer has received
\* recv     the number of messages the consumer has received
\* stuck    the loop waits in a channel send
\* handled  the messages handed on: to OnRemoteOp, or to the case of the
\*          switch for their type
\* running  the loop has not returned
\* open     this process has not closed the connection
\* eof      the remote side has closed the connection
\* split    a Read ended in the middle of a message
\* multi    a Read returned more than one newline
ReadLoopNew(kind, msgs) ==
  [kind |-> kind, sent |-> msgs, wire |-> Terminated(msgs), buffer |-> <<>>,
   framed |-> <<>>, handled |-> <<>>, running |-> TRUE, open |-> TRUE,
   eof |-> FALSE, split |-> FALSE, multi |-> FALSE,
   chan |-> <<>>, occ |-> <<>>, taken |-> <<>>, recv |-> 0,
   stuck |-> FALSE]

ReadLoopIdle == ReadLoopNew("handleConn", <<>>)

NonEmpty(lines) == SelectSeq(lines, LAMBDA l : l # <<>>)

Addr == "c1"                 \* peer.Conn.RemoteAddr() of the connection
OtherAddr == "c0"            \* the address of another connection
Message(data, clientID) == [Data |-> data, ClientID |-> clientID]

\* a channel send that waits for room
SendBlocking(r, msg) ==
  IF r.stuck THEN r
  ELSE IF Len(r.chan) < ChanCap
  THEN [r EXCEPT !.chan = Append(r.chan, msg),
                 !.occ = Append(r.occ, Len(r.chan))]
  ELSE [r EXCEPT !.occ = Append(r.occ, Len(r.chan)), !.stuck = TRUE]

\* select { case pm.Messages <- msg: default: }: the message is queued when
\* the channel has room and dropped when it has none
Send(r, msg) ==
  IF Len(r.chan) < ChanCap
  THEN [r EXCEPT !.chan = Append(r.chan, msg),
                 !.occ = Append(r.occ, Len(r.chan))]
  ELSE [r EXCEPT !.occ = Append(r.occ, Len(r.chan))]

\* the inner loop of PeerManager.handleConnection over the complete lines
RECURSIVE SendAll(_, _)
SendAll(r, lines) ==
  IF lines = <<>> THEN r
  ELSE SendAll(IF Head(lines) = <<>> THEN r
               ELSE Send(r, Message(Head(lines), Addr)),
               Tail(lines))

\* what the loop does with the n bytes of one successful Read
OnRead(r, chunk) ==
  LET buf == r.buffer \o chunk
      f == Frames(buf)
      d == DecodeAll(buf)
      all == r.framed \o NonEmpty(f.lines)
  IN CASE r.kind = "handleConn" ->
            [r EXCEPT !.buffer = f.rest,
                      !.framed = r.framed \o f.lines,
                      !.handled = r.handled \o
                         SelectSeq(f.lines, LAMBDA l : Parse(l) # "error")]
       [] r.kind \in {"hostNewline", "clientNewline"} ->
            [r EXCEPT !.buffer = f.rest,
                      !.framed = all,
                      !.handled = r.handled \o
                         SelectSeq(f.lines, LAMBDA l : Parse(l) = "draw")]
       [] r.kind = "peerManager" ->
            [SendAll(r, f.lines) EXCEPT !.buffer = f.rest, !.framed = all]
       [] OTHER ->
            [r EXCEPT !.buffer = d.rest,
                      !.framed = r.framed \o d.vals,
                      !.handled = r.handled \o
                         SelectSeq(d.vals, LAMBDA l : Parse(l) = "draw"),
                      !.running = ~d.err,
                      !.open = ~d.err]

\* ------------------------------------------------------ Transport.Close
MaxCloseConns == 4           \* connections the listener accepts in a run

\* lis         the listener is open
\* acc         the accept loop: "accept" (in Accept), "got" (Accept returned
\*             a connection that is not yet registered) or "returned"
\* got         the connection Accept returned (0: none)
\* made        how many connections Accept has returned
\* peers       the connections in t.peers
\* registered  the connections that were ever in t.peers
\* open        connections this process has not closed
\* loops       connections whose handleConn is running
\* close       Close: "idle", "listener" (the listener is closed, the lock
\*             not yet taken) or "done"
CloseInit ==
  [lis |-> TRUE, acc |-> "accept", got |-> 0, made |-> 0, peers |-> {},
   registered |-> {}, open |-> {}, loops |-> {}, close |-> "idle"]

\* ----------------------------------------------------------------- clock
NGoroutines == 3             \* goroutines that call EmitLocal
MaxEmits == 4                \* EmitLocal calls in a run
Goroutines == 1..NGoroutines

\* siteID = uuid.NewString(), set once when the package is initialised
siteID == "site"

\* lamport  the package variable lamport
\* calls    EmitLocal calls begun
\* op       per goroutine, the op of its EmitLocal call after the two
\*          assignments and before OnLocalOp (<<>> outside such a call);
\*          seen is the number of operations emitted when nextLamport ran
\* emitted  the operations handed to OnLocalOp, in the order of the calls
ClockInit ==
  [lamport |-> 0, calls |-> 0,
   op |-> [g \in Goroutines |-> <<>>], emitted |-> <<>>]

\* nextLamport that returns the counter without adding to it
nextLamportNoAdd(l) == l

\* atomic.AddUint64(&lamport, 1): the new value, stored and returned
nextLamport(l) == l + 1

\* ---------------------------------------------------------- SpaceManager
\* Coordinates are float32 in the program; every value of the model is a
\* whole number far below 2^24, for which float32 arithmetic is exact.
Padding == 10                \* ClaimSpace: padding around the path
Margin == 10                 \* findAlternativeArea: gap to the requested area
CanvasWidth == 1200          \* isAreaInBounds
CanvasHeight == 900          \* isAreaInBounds
MaxRegions == 2              \* longest region list
MaxPaths == 2                \* paths claimed in a run

Owners == {"u1", "u2"}
PathIDs == {"s1"}

\* the paths that are drawn, and the rectangles clients ask for: in the
\* top left, bottom left and bottom right corners of the canvas
Pos(x, y) == [X |-> x, Y |-> y]
PointSeqs == {<<Pos(50, 50)>>, <<Pos(50, 50), Pos(150, 150)>>,
              <<Pos(50, 750), Pos(50, 850)>>,
              <<Pos(1150, 850)>>,
              <<Pos(1150, 750), Pos(1150, 850)>>}
Areas == {[X |-> c[1], Y |-> c[2], Width |-> 100, Height |-> 100] :
            c \in {<<0, 0>>, <<0, 800>>, <<1100, 800>>}}

\* regions         sm.regions (ClaimedAt, which nothing reads, is left out)
\* allocatedAreas  sm.allocatedAreas: client -> area
\* last            the last call: op, client, the requested area and the
\*                 returned pointer (<<>> is nil)
NewSpaceManager ==
  [regions |-> <<>>, allocatedAreas |-> [c \in {} |-> 0],
   last |-> [op |-> "new", client |-> "", req |-> <<>>, ret |-> <<>>]]

regionsOverlap(a, b) ==
  ~(a.X + a.Width < b.X \/ b.X + b.Width < a.X \/
    a.Y + a.Height < b.Y \/ b.Y + b.Height < a.Y)

isAreaOccupied(s, area) ==
  \E i \in 1..Len(s.regions) : regionsOverlap(area, s.regions[i].Area)

isAreaInBounds(area) ==
  /\ area.X >= 0 /\ area.Y >= 0
  /\ area.X + area.Width <= CanvasWidth
  /\ area.Y + area.Height <= CanvasHeight

\* the offsets of findAlternativeArea without the gap to the requested area
offsetsNoMargin(requestedArea) ==
  <<[dx |-> 0, dy |-> requestedArea.Height],
    [dx |-> 0, dy |-> -requestedArea.Height],
    [dx |-> requestedArea.Width, dy |-> 0],
    [dx |-> -requestedArea.Width, dy |-> 0]>>

\* offsets of findAlternativeArea: below, above, right, left
offsets(requestedArea) ==
  <<[dx |-> 0, dy |-> requestedArea.Height + Margin],
    [dx |-> 0, dy |-> -(requestedArea.Height + Margin)],
    [dx |-> requestedArea.Width + Margin, dy |-> 0],
    [dx |-> -(requestedArea.Width + Margin), dy |-> 0]>>

alternative(requestedArea, offset) ==
  [X |-> requestedArea.X + offset.dx, Y |-> requestedArea.Y + offset.dy,
   Width |-> requestedArea.Width, Height |-> requestedArea.Height]

\* the loop of findAlternativeArea from offset i on
RECURSIVE tryOffsets(_, _, _)
tryOffsets(s, requestedArea, i) ==
  IF i > Len(offsets(requestedArea)) THEN <<>>
  ELSE LET alt == alternative(requestedArea, offsets(requestedArea)[i])
       IN IF ~isAreaOccupied(s, alt) /\ isAreaInBounds(alt)
          THEN <<alt>>
          ELSE tryOffsets(s, requestedArea, i + 1)

\* the loop of findAlternativeArea without the test of the canvas bounds
RECURSIVE tryOffsetsNoBounds(_, _, _)
tryOffsetsNoBounds(s, requestedArea, i) ==
  IF i > Len(offsets(requestedArea)) THEN <<>>
  ELSE LET alt == alternative(requestedArea, offsets(requestedArea)[i])
       IN IF ~isAreaOccupied(s, alt)
          THEN <<alt>>
          ELSE tryOffsetsNoBounds(s, requestedArea, i + 1)

\* findAlternativeArea returning the first unoccupied candidate
findAlternativeAreaNoBounds(s, requestedArea) ==
  tryOffsetsNoBounds(s, requestedArea, 1)

findAlternativeArea(s, requestedArea) == tryOffsets(s, requestedArea, 1)

\* AllocateSpace recording the requested area when nothing is free
AllocateSpaceRecordsRequest(s, clientID, requestedArea) ==
  IF isAreaOccupied(s, requestedArea)
  THEN LET alt == findAlternativeArea(s, requestedArea)
       IN [regions |-> s.regions,
           allocatedAreas |->
             Put(s.allocatedAreas, clientID,
                 IF alt # <<>> THEN alt[1] ELSE requestedArea),
           ret |-> alt]
  ELSE [regions |-> s.regions,
        allocatedAreas |-> Put(s.allocatedAreas, clientID, requestedArea),
        ret |-> <<requestedArea>>]

\* AllocateSpace(clientID, requestedArea): the manager after the call and
\* the returned pointer
AllocateSpace(s, clientID, requestedArea) ==
  IF isAreaOccupied(s, requestedArea)
  THEN LET alt == findAlternativeArea(s, requestedArea)
       IN IF alt # <<>>
          THEN [regions |-> s.regions,
                allocatedAreas |-> Put(s.allocatedAreas, clientID, alt[1]),
                ret |-> alt]
          ELSE [regions |-> s.regions, allocatedAreas |-> s.allocatedAreas,
                ret |-> <<>>]
  ELSE [regions |-> s.regions,
        allocatedAreas |-> Put(s.allocatedAreas, clientID, requestedArea),
        ret |-> <<requestedArea>>]

\* the bounding box of the points
MinOf(S) == CHOOSE x \in S : \A y \in S : x <= y
MaxOf(S) == CHOOSE x \in S : \A y \in S : x >= y

boundingRegion(pathID, owner, points) ==
  LET xs == {points[i].X : i \in 1..Len(points)}
      ys == {points[i].Y : i \in 1..Len(points)}
  IN [Area |-> [X |-> MinOf(xs) - Padding, Y |-> MinOf(ys) - Padding,
                Width |-> MaxOf(xs) - MinOf(xs) + 2 * Padding,
                Height |-> MaxOf(ys) - MinOf(ys) + 2 * Padding],
      Owner |-> owner, PathIDs |-> <<pathID>>]

\* mergeRegions keeping the area of the existing region
mergeRegionsKeepArea(existing, new) ==
  [Area |-> existing.Area, Owner |-> existing.Owner,
   PathIDs |-> existing.PathIDs \o new.PathIDs]

mergeRegions(existing, new) ==
  LET minX == Min(existing.Area.X, new.Area.X)
      minY == Min(existing.Area.Y, new.Area.Y)
      maxX == MaxOf({existing.Area.X + existing.Area.Width,
                     new.Area.X + new.Area.Width})
      maxY == MaxOf({existing.Area.Y + existing.Area.Height,
                     new.Area.Y + new.Area.Height})
  IN [Area |-> [X |-> minX, Y |-> minY,
                Width |-> maxX - minX, Height |-> maxY - minY],
      Owner |-> existing.Owner,
      PathIDs |-> existing.PathIDs \o new.PathIDs]

\* ClaimSpace(pathID, owner, points): the region list after the call
ClaimSpace(s, pathID, owner, points) ==
  IF Len(points) = 0 THEN s.regions
  ELSE LET region == boundingRegion(pathID, owner, points)
           hits == {i \in 1..Len(s.regions) :
                      /\ s.regions[i].Owner = owner
                      /\ regionsOverlap(region.Area, s.regions[i].Area)}
       IN IF hits # {}
          THEN [s.regions EXCEPT ![MinOf(hits)] =
                  mergeRegions(s.regions[MinOf(hits)], region)]
          ELSE Append(s.regions, region)

pointInArea(point, area) ==
  /\ point.X >= area.X /\ point.X <= area.X + area.Width
  /\ point.Y >= area.Y /\ point.Y <= area.Y + area.Height

\* pointInOccupiedRegion counting the regions of excludeOwner too
pointInAnyRegion(s, point, excludeOwner) ==
  \E i \in 1..Len(s.regions) : pointInArea(point, s.regions[i].Area)

pointInOccupiedRegion(s, point, excludeOwner) ==
  \E i \in 1..Len(s.regions) :
    /\ s.regions[i].Owner # excludeOwner
    /\ pointInArea(point, s.regions[i].Area)

Host == "host"

\* CanDrawInArea without the exemption of the host
CanDrawInAreaNoHost(s, clientID, points) ==
  IF Len(points) = 0 THEN FALSE
  ELSE IF clientID \notin DOMAIN s.allocatedAreas THEN FALSE
  ELSE IF \E i \in 1..Len(points) :
            ~pointInArea(points[i], s.allocatedAreas[clientID]) THEN FALSE
  ELSE IF \E i \in 1..Len(points) :
            pointInOccupiedRegion(s, points[i], clientID) THEN FALSE
  ELSE TRUE

\* CanDrawInArea(clientID, points)
CanDrawInArea(s, clientID, points) ==
  IF Len(points) = 0 THEN FALSE
  ELSE IF clientID = Host THEN TRUE
  ELSE IF clientID \notin DOMAIN s.allocatedAreas THEN FALSE
  ELSE IF \E i \in 1..Len(points) :
            ~pointInArea(points[i], s.allocatedAreas[clientID]) THEN FALSE
  ELSE IF \E i \in 1..Len(points) :
            pointInOccupiedRegion(s, points[i], clientID) THEN FALSE
  ELSE TRUE

\* the identities, rectangles and paths of DrawSpec
MaxDraws == 3                \* paths drawn in a run
Clients == Owners \cup {Host}
DrawAreas == {[X |-> 0, Y |-> 0, Width |-> 100, Height |-> 100]}
DrawPointSeqs == {<<>>, <<Pos(50, 50)>>, <<Pos(50, 100)>>, <<Pos(50, 115)>>}


\* ------------------------------------------------------- host and clients
\* The host/client protocol of main.go and of part_007: the host keeps the
\* registry of client connections, relays what a client sends to the others
\* and sends the paths it holds to a client that has just joined.
MaxOps == 2                  \* draws and clears, of the host and the clients
HostClients == {"c1", "c2"}
NoConn == "nil"              \* the nil net.Conn
HostGoroutines == {"ui"} \cup HostClients

\* a path drawn by owner as its n-th; the board widget sets OwnerID
Path(owner, n) == [ID |-> <<owner, n>>, OwnerID |-> owner]

\* BoardWidget: the paths it holds
BoardAddRemotePath(board, p) == board \cup {p}
ClearRemote(board, ownerID) ==
  IF ownerID = "all" THEN {} ELSE {p \in board : p.OwnerID # ownerID}
GetAllPaths(board) == board

\* type NetworkMessage. from and n say who sent the message first and as
\* which of its messages; they are not part of the bytes.
DrawMsg(p, n) ==
  [Type |-> "draw", Path |-> <<p>>, OwnerID |-> "", Paths |-> {},
   from |-> p.OwnerID, n |-> n]
ClearMsg(ownerID, n) ==
  [Type |-> "clear", Path |-> <<>>, OwnerID |-> ownerID, Paths |-> {},
   from |-> ownerID, n |-> n]
SyncMsg(paths) ==
  [Type |-> "sync_state", Path |-> <<>>, OwnerID |-> "", Paths |-> paths,
   from |-> "sync", n |-> 0]

\* Broadcast writing to the excluded connection as well
TargetsAll(connections, exclude) == connections
\* the connections Broadcast(data, exclude) writes to
Targets(connections, exclude) == connections \ {exclude}

\* conn.Write putting the bytes before those not yet read
ConnWriteFirst(stream, data) == <<data>> \o stream
\* conn.Write: the bytes follow those written before
ConnWrite(stream, data) == Append(stream, data)

\* the switch of handleHostConnection, on the board of the host
HostOnMessage(board, msg) ==
  CASE msg.Type = "draw" -> BoardAddRemotePath(board, msg.Path[1])
    [] msg.Type = "clear" -> ClearRemote(board, msg.OwnerID)
    [] OTHER -> board

\* the switch of connectToHost, on the board of the client
ClientOnMessage(impl, board, localClientID, msg) ==
  CASE msg.Type = "draw" ->
         IF msg.Path[1].OwnerID # localClientID
         THEN BoardAddRemotePath(board, msg.Path[1]) ELSE board
    [] msg.Type = "clear" -> ClearRemote(board, msg.OwnerID)
    [] msg.Type = "sync_state" ->
         IF impl = "main"
         THEN board \cup {p \in msg.Paths : p.OwnerID # localClientID}
         ELSE ClearRemote(board, "all") \cup msg.Paths
    [] OTHER -> board

\* impl     which of the two programs runs
\* board    the paths of the host's board
\* conns    connManager.connections
\* bc       per goroutine of the host that broadcasts (ui: the callbacks of
\*          the board; a client: its handleHostConnection): pc, the message,
\*          the connections still to write to, the registry when the
\*          broadcast took the lock, the writes made per connection
\* sy       per client, the goroutine that sends the current state
\* cli      per client: st (new, conn), its board, the messages it has
\*          written that the host has not read (out), how many it has sent
\*          (sent), the number of its last clear (clearN), whether it has
\*          handled a clear it had sent itself (ownClear)
\* wire     per client, what the host has written to its connection and the
\*          client has not read
\* last     per client and sender, the number of the last message of that
\*          sender the client has handled
\* hops     the draws and clears of the host
\* cleared  the host has cleared
Senders == {Host} \cup HostClients
NoWrites == [d \in HostClients |-> 0]
IdleBc ==
  [pc |-> "none", msg |-> SyncMsg({}), todo |-> {}, start |-> {},
   wrote |-> NoWrites]
HostNew(impl) ==
  [impl |-> impl, board |-> {}, conns |-> {},
   bc |-> [g \in HostGoroutines |->
             IF g = "ui" THEN [IdleBc EXCEPT !.pc = "idle"] ELSE IdleBc],
   sy |-> [c \in HostClients |-> [pc |-> "none", snap |-> {}]],
   cli |-> [c \in HostClients |->
              [st |-> "new", board |-> {}, out |-> <<>>, sent |-> 0,
               clearN |-> 0, ownClear |-> FALSE]],
   wire |-> [c \in HostClients |-> <<>>],
   last |-> [c \in HostClients |-> [s \in Senders |-> 0]],
   hops |-> 0, cleared |-> FALSE]

HostInit == HostNew("main")

\* ------------------------------------------------------- WhiteboardState
MaxClock == 4                \* calls of Tick modelled
MaxStamp == 2                \* the largest timestamp of a remote path
LocalSite == "11"            \* rand.Intn(1000000) printed with %d
RemoteSites == {"22"}
Space == " "
Digits == <<"0", "1", "2", "3", "4", "5", "6", "7", "8", "9">>

\* fmt.Sprintf("%d", n) and its inverse, for one digit
Dec(n) == Digits[n + 1]
ParseDec(tok) ==
  IF \E n \in 0..9 : Digits[n + 1] = tok
  THEN CHOOSE n \in 0..9 : Digits[n + 1] = tok
  ELSE 0

\* fmt.Sprintf("path-%s-%d", siteID, timestamp): the pieces of the string
PathID(site, timestamp) == <<"path-", site, "-", Dec(timestamp)>>

\* fmt.Sscanf(id, "path-%s-%d", &remoteSiteID, &remoteTimestamp): the
\* literal must match; %s takes every piece up to white space or the end of
\* the input; the "-" of the format must then match the next piece, and only
\* then is %d scanned. A variable that is not scanned keeps its zero value.
Sscanf(id) ==
  IF id = <<>> \/ id[1] # "path-"
  THEN [remoteSiteID |-> <<>>, remoteTimestamp |-> 0]
  ELSE LET rest == Tail(id)
           stops == {i \in 1..Len(rest) : rest[i] = Space}
           n == IF stops = {} THEN Len(rest)
                ELSE (CHOOSE i \in stops : \A j \in stops : i <= j) - 1
           after == SubSeq(rest, n + 1, Len(rest))
       IN [remoteSiteID |-> SubSeq(rest, 1, n),
           remoteTimestamp |->
             IF Len(after) >= 2 /\ after[1] = "-"
             THEN ParseDec(after[2]) ELSE 0]

\* Clock.Tick and Clock.Update, on the counter
Tick(counter) == counter + 1
Update(counter, timestamp) ==
  IF timestamp > counter THEN timestamp ELSE counter

\* siteID      this session's site
\* clock       the counter of the logical clock
\* paths       the IDs of the paths held
\* operations  the operations seen, by ID
\* last        the last call, its result, the timestamp written in the ID it
\*             was given, and the clock before the call
NewWhiteboardState ==
  [siteID |-> LocalSite, clock |-> 0, paths |-> {},
   operations |-> <<>>,
   last |-> [call |-> "none", ret |-> FALSE, id |-> <<>>, T |-> 0,
             before |-> 0]]

PathOperation(id, site, timestamp) ==
  [ID |-> id, SiteID |-> site, Timestamp |-> timestamp]

AddLocalPath(ws) ==
  LET timestamp == Tick(ws.clock)
      id == PathID(ws.siteID, timestamp)
  IN [ws EXCEPT
        !.clock = timestamp,
        !.paths = ws.paths \cup {id},
        !.operations = (id :> PathOperation(id, <<ws.siteID>>, timestamp))
                          @@ ws.operations,
        !.last = [call |-> "AddLocalPath", ret |-> TRUE, id |-> id,
                  T |-> timestamp, before |-> ws.clock]]

AddRemotePath(ws, id, T) ==
  LET scanned == Sscanf(id)
      called == [call |-> "AddRemotePath", ret |-> FALSE, id |-> id,
                 T |-> T, before |-> ws.clock]
  IN IF id \in ws.paths
     THEN [ws EXCEPT !.last = called]
     ELSE [ws EXCEPT
             !.clock = Update(ws.clock, scanned.remoteTimestamp),
             !.paths = ws.paths \cup {id},
             !.operations =
                (id :> PathOperation(id, scanned.remoteSiteID,
                                     scanned.remoteTimestamp))
                   @@ ws.operations,
             !.last = [called EXCEPT !.ret = TRUE]]

\* Merge(other): every operation of other that is not known is stored with
\* its path, and the clock is updated with its timestamp
RECURSIVE MaxTimestamp(_)
MaxTimestamp(ops) ==
  IF ops = {} THEN 0
  ELSE LET op == CHOOSE o \in ops : TRUE
           rest == MaxTimestamp(ops \ {op})
       IN IF op.Timestamp > rest THEN op.Timestamp ELSE rest

Merge(ws, otherOps) ==
  LET new == {op \in otherOps : op.ID \notin DOMAIN ws.operations}
      merged == [id \in DOMAIN ws.operations \cup {op.ID : op \in new} |->
                   IF id \in DOMAIN ws.operations THEN ws.operations[id]
                   ELSE CHOOSE op \in new : op.ID = id]
  IN [ws EXCEPT
        !.clock = Update(ws.clock, MaxTimestamp(new)),
        !.paths = ws.paths \cup {op.ID : op \in new},
        !.operations = merged,
        !.last = [call |-> "Merge", ret |-> new # {}, id |-> <<>>,
                  T |-> MaxTimestamp(new), before |-> ws.clock]]

\* ------------------------------------------------- BoardState and its lock
\* One goroutine calls Apply and restore, another calls Strokes; both work
\* on the same BoardState and take its RWMutex as the code does. A call is
\* split into the steps of its code: taking the lock, every write or read of
\* the map and of the order list, releasing the lock.
MaxLockCalls == 3            \* calls of Apply and restore
SA == [ID |-> "a", Time |-> 2, Color |-> "nil"]
SB == [ID |-> "b", Time |-> 1, Color |-> "nil"]
CallApply(op) == [fn |-> "Apply", op |-> <<op>>, loaded |-> <<>>]
CallRestore(loaded) == [fn |-> "restore", op |-> <<>>, loaded |-> loaded]
LockCalls ==
  {CallApply(op) : op \in {InsertOp(SA), InsertOp(SB), DeleteOp("a")}}
    \cup {CallRestore(l) : l \in {<<SB>>, <<SA, SB>>}}

\* sync.RWMutex: w, a writer holds it; r, the number of readers holding it
NewRWMutex == [w |-> FALSE, r |-> 0]
CanLock(mu) == ~mu.w /\ mu.r = 0
\* RLock that does not wait for the writer
CanRLockAnyTime(mu) == TRUE
CanRLock(mu) == ~mu.w

\* the writes a call makes between Lock and Unlock, in the order of the code
RECURSIVE restoreWrites(_)
restoreWrites(loaded) ==
  IF loaded = <<>> THEN <<>>
  ELSE <<[w |-> "put", st |-> <<Head(loaded)>>, id |-> Head(loaded).ID],
         [w |-> "append", st |-> <<>>, id |-> Head(loaded).ID]>>
         \o restoreWrites(Tail(loaded))

Writes(s, call) ==
  IF call.fn = "restore"
  THEN <<[w |-> "newmap", st |-> <<>>, id |-> ""],
         [w |-> "neworder", st |-> <<>>, id |-> ""]>>
         \o restoreWrites(call.loaded)
  ELSE LET op == call.op[1]
       IN IF ~Apply(s, op).ret THEN <<>>
          ELSE IF op.Type = OpInsertStroke
          THEN <<[w |-> "put", st |-> op.Stroke, id |-> op.Stroke[1].ID],
                 [w |-> "append", st |-> <<>>, id |-> op.Stroke[1].ID]>>
          ELSE <<[w |-> "delete", st |-> <<>>, id |-> op.Target],
                 [w |-> "filter", st |-> <<>>, id |-> op.Target]>>

\* one write of the list above
Write(s, wr) ==
  CASE wr.w = "put" ->
         [s EXCEPT !.strokes = Put(s.strokes, wr.id, wr.st[1])]
    [] wr.w = "append" -> [s EXCEPT !.order = Append(s.order, wr.id)]
    [] wr.w = "delete" -> [s EXCEPT !.strokes = Drop(s.strokes, wr.id)]
    [] wr.w = "filter" ->
         [s EXCEPT !.order = SelectSeq(s.order, LAMBDA id : id # wr.id)]
    [] wr.w = "newmap" -> [s EXCEPT !.strokes = NewBoardState.strokes]
    [] OTHER -> [s EXCEPT !.order = <<>>]

\* state      the BoardState (strokes and order)
\* committed  the BoardState when the write lock was last released
\* mu         the RWMutex
\* wpc, call, todo, calls   the writing goroutine: where it is, its call,
\*            the writes it has still to make, the calls it has made
\* rpc, ord, out   the reading goroutine: where it is in Strokes(), the ids
\*            it has still to look up, the strokes it has collected
\* seen       what Strokes() returns for the contents the store had between
\*            mutations while the current Strokes() call ran
\* ret, returned   the result of the last Strokes() call
LockInit ==
  [state |-> NewBoardState, committed |-> NewBoardState, mu |-> NewRWMutex,
   wpc |-> "idle", call |-> CallRestore(<<>>), todo |-> <<>>, calls |-> 0,
   rpc |-> "idle", ord |-> <<>>, out |-> <<>>,
   seen |-> {}, ret |-> <<>>, returned |-> FALSE]

\* ------------------------------------------------------------- variables
\* strokes, order  the BoardState under Spec and PersistSpec
\* file            the file at the path Save writes (PersistSpec)
\* last            the call that produced the current state
\* repA, repB      two independent BoardStates (PairSpec)
\* scen            which delivery scenario PairSpec is in
VARIABLES strokes, order, file, last, repA, repB, scen

\* echo   an origin process, its peers and the lines in flight (EchoSpec)
\* reg    a peer registry, its lock and its tasks (RegistrySpec)
\* disc   two Transport processes that discover each other (DiscoverSpec)
\* rl     a connection read loop and its byte stream (ReadLoopSpec)
\* cl     a Transport that is being closed (CloseSpec)
\* sm     the SpaceManager (SpaceSpec, DrawSpec, ClaimSpec)
\* clk    the Lamport clock of one process and its EmitLocal calls (ClockSpec)
\* hc     a host, its clients and the messages in flight (HostSpec)
\* wb     a WhiteboardState and its logical clock (WhiteboardSpec)
\* rd     a BoardState under concurrent writers and a reader (LockSpec)
VARIABLES echo, reg, disc, rl, cl, sm, clk, hc, wb, rd

storeVars == <<strokes, order, file, last, repA, repB, scen>>
netVars == <<echo, reg, disc, rl, cl, sm, clk, hc, wb, rd>>
vars == <<storeVars, netVars>>

store == [strokes |-> strokes, order |-> order]

StoreOf(r) == [strokes |-> r.strokes, order |-> r.order]

NoOp == [Type |-> "", Stroke |-> <<>>, Target |-> ""]

\* the stroke ID an operation names: the stroke's for an insert, the target
\* for a delete, "" when there is none
OpID(op) ==
  IF op.Type = OpInsertStroke
  THEN (IF op.Stroke = <<>> THEN "" ELSE op.Stroke[1].ID)
  ELSE IF op.Type = OpDeleteStroke THEN op.Target ELSE ""

\* kind   "none", "marked", "redelivered", "half" or "swapped"
\* x, y   the operations of the scenario
\* gap    an operation arrived between x and its second delivery
\* clash  one of those operations clashes with x
\* ret    what Apply returned for the second delivery of x
\* more   operations arrived after the scenario was complete
NoScen == [kind |-> "none", x |-> NoOp, y |-> NoOp, gap |-> FALSE,
           clash |-> FALSE, ret |-> FALSE, more |-> FALSE]

StoreInit ==
  /\ strokes = NewBoardState.strokes
  /\ order = NewBoardState.order
  /\ file = NoFile
  /\ last = [call |-> "new", kind |-> "", id |-> "", ret |-> "", had |-> 0,
             miss |-> ""]
  /\ repA = NewBoardState
  /\ repB = NewBoardState
  /\ scen = NoScen

Init ==
  /\ StoreInit
  /\ echo = EchoInit
  /\ reg = RegIdle
  /\ disc = DiscInit
  /\ rl = ReadLoopIdle
  /\ cl = CloseInit
  /\ sm = NewSpaceManager
  /\ clk = ClockInit
  /\ hc = HostInit
  /\ wb = NewWhiteboardState
  /\ rd = LockInit

\* last: call, kind (operation type or file kind), id (OpID), ret, had (the
\* number of strokes a Load found in the store) and miss (the target of the
\* call before, when that was a Delete of a stroke that was not stored)
MissedDelete ==
  IF last.call = "Apply" /\ last.kind = OpDeleteStroke /\ last.ret = "false"
     /\ last.id \notin DOMAIN strokes
  THEN last.id ELSE ""

\* s.Apply(op)
ApplyCall(op) ==
  LET r == Apply(store, op)
  IN /\ strokes' = r.strokes
     /\ order' = r.order
     /\ last' = [call |-> "Apply", kind |-> op.Type, id |-> OpID(op),
                 ret |-> IF r.ret THEN "true" ELSE "false", had |-> 0,
                 miss |-> MissedDelete]
     /\ UNCHANGED <<netVars, file, repA, repB, scen>>

\* Load(path), path naming any of Files
LoadCall(f) ==
  LET r == Load(store, f)
  IN /\ strokes' = r.strokes
     /\ order' = r.order
     /\ last' = [call |-> "Load", kind |-> f.kind, id |-> "",
                 ret |-> r.ret, had |-> Cardinality(DOMAIN strokes),
                 miss |-> ""]
     /\ UNCHANGED <<netVars, file, repA, repB, scen>>

Next ==
  \/ \E op \in Ops : ApplyCall(op)
  \/ \E f \in Files : LoadCall(f)

Spec == Init /\ [][Next]_vars

\* ----------------------------------------------------------- PersistSpec
\* Save(path), os.WriteFile succeeds
SaveCall ==
  /\ file' = Save(store)
  /\ last' = [call |-> "Save", kind |-> "", id |-> "", ret |-> "nil", had |-> 0,
              miss |-> ""]
  /\ UNCHANGED <<netVars, strokes, order, repA, repB, scen>>

\* Save(path), os.WriteFile fails: the file is as before, or cut short
SaveFails ==
  /\ file' \in {file, Garbage}
  /\ last' = [call |-> "Save", kind |-> "", id |-> "", ret |-> "err", had |-> 0,
              miss |-> ""]
  /\ UNCHANGED <<netVars, strokes, order, repA, repB, scen>>

\* Load(path) of the path Save writes
LoadSession ==
  LET r == Load(store, file)
  IN /\ strokes' = r.strokes
     /\ order' = r.order
     /\ last' = [call |-> "Load", kind |-> file.kind, id |-> "",
                 ret |-> r.ret, had |-> Cardinality(DOMAIN strokes),
                 miss |-> ""]
     /\ UNCHANGED <<netVars, file, repA, repB, scen>>

PersistNext ==
  \/ \E op \in Ops : ApplyCall(op)
  \/ SaveCall
  \/ SaveFails
  \/ LoadSession

PersistSpec == Init /\ [][PersistNext]_vars

\* -------------------------------------------------------------- PairSpec
\* Two stores receive the same stream, except for one scenario per run:
\* two neighbouring operations arrive in opposite orders (SwapFirst,
\* SwapSecond), or one operation arrives a second time at repB (Mark,
\* Redeliver).

\* the operations clash: they name the same stroke ID, one inserts it and
\* the other deletes it
Clash(x, y) ==
  /\ OpID(x) # ""
  /\ OpID(x) = OpID(y)
  /\ {x.Type, y.Type} = {OpInsertStroke, OpDeleteStroke}

DeliverBoth(op) ==
  /\ scen.kind \in {"none", "marked", "swapped", "redelivered"}
  /\ repA' = StoreOf(Apply(repA, op))
  /\ repB' = StoreOf(Apply(repB, op))
  /\ scen' = IF scen.kind = "marked"
             THEN [scen EXCEPT !.gap = TRUE,
                               !.clash = scen.clash \/ Clash(scen.x, op)]
             ELSE IF scen.kind = "none" THEN scen
             ELSE [scen EXCEPT !.more = TRUE]
  /\ UNCHANGED <<netVars, strokes, order, file, last>>

\* op is delivered to both stores and will arrive once more at repB
Mark(op) ==
  /\ scen.kind = "none"
  /\ repA' = StoreOf(Apply(repA, op))
  /\ repB' = StoreOf(Apply(repB, op))
  /\ scen' = [NoScen EXCEPT !.kind = "marked", !.x = op]
  /\ UNCHANGED <<netVars, strokes, order, file, last>>

Redeliver ==
  /\ scen.kind = "marked"
  /\ repB' = StoreOf(Apply(repB, scen.x))
  /\ scen' = [scen EXCEPT !.kind = "redelivered",
                           !.ret = Apply(repB, scen.x).ret]
  /\ UNCHANGED <<netVars, strokes, order, file, last, repA>>

\* repA receives x while repB receives y ...
SwapFirst(x, y) ==
  /\ scen.kind = "none"
  /\ repA' = StoreOf(Apply(repA, x))
  /\ repB' = StoreOf(Apply(repB, y))
  /\ scen' = [NoScen EXCEPT !.kind = "half", !.x = x, !.y = y]
  /\ UNCHANGED <<netVars, strokes, order, file, last>>

\* ... and then each receives the other one
SwapSecond ==
  /\ scen.kind = "half"
  /\ repA' = StoreOf(Apply(repA, scen.y))
  /\ repB' = StoreOf(Apply(repB, scen.x))
  /\ scen' = [scen EXCEPT !.kind = "swapped"]
  /\ UNCHANGED <<netVars, strokes, order, file, last>>

PairNext ==
  \/ \E op \in Ops : DeliverBoth(op)
  \/ \E op \in Ops : Mark(op)
  \/ Redeliver
  \/ \E x, y \in Ops : SwapFirst(x, y)
  \/ SwapSecond

PairSpec == Init /\ [][PairNext]_vars

\* -------------------------------------------------------------- EchoSpec
\* An origin draws, applies the insert to its own store and broadcasts it;
\* peers read the line and may write it back; the origin's read loop reads
\* what comes back.
SentIDs == {OpID(echo.sent[i]) : i \in 1..Len(echo.sent)}

\* the local draw: the operation is applied to the store and handed to
\* Broadcast, which writes its line to every peer
OnLocalOp(e, op) ==
  [e EXCEPT !.store = StoreOf(Apply(e.store, op)),
            !.sent = Append(e.sent, op),
            !.wire = [p \in PeerIDs |-> Append(e.wire[p], MarshalOp(op))]]

\* MouseUp: NewStrokeOp (a fresh stroke ID) and EmitLocal
LocalDraw(st) ==
  /\ Len(echo.sent) < MaxLocal
  /\ st.ID # ""
  /\ st.ID \notin SentIDs
  /\ echo' = OnLocalOp(echo, InsertOp(st))
  /\ UNCHANGED <<storeVars, reg, disc, rl, cl, sm, clk, hc, wb, rd>>

\* peer p reads its next line and, if back, writes the same line to the origin
PeerRead(p, sendsBack) ==
  /\ echo.wire[p] # <<>>
  /\ echo' = [echo EXCEPT !.wire[p] = Tail(echo.wire[p]),
                          !.back = IF sendsBack
                                   THEN Append(echo.back, Head(echo.wire[p]))
                                   ELSE echo.back]
  /\ UNCHANGED <<storeVars, reg, disc, rl, cl, sm, clk, hc, wb, rd>>

\* the origin's handleConn scans the next line that came back
OriginRead ==
  /\ echo.back # <<>>
  /\ echo' = [echo EXCEPT !.back = Tail(echo.back),
                          !.store = handleLine(echo.store, Head(echo.back)),
                          !.fired = firedBy(echo.store, echo.fired, Head(echo.back)),
                          !.echoed = echo.echoed \cup {Head(echo.back).Stroke[1].ID}]
  /\ UNCHANGED <<storeVars, reg, disc, rl, cl, sm, clk, hc, wb, rd>>

EchoNext ==
  \/ \E st \in Stroke : LocalDraw(st)
  \/ \E p \in PeerIDs, sendsBack \in BOOLEAN : PeerRead(p, sendsBack)
  \/ OriginRead

EchoSpec == Init /\ [][EchoNext]_vars

\* ---------------------------------------------------------- DiscoverSpec
\* the callback of DiscoverAndConnect in x for the address of y: the lookup
\* under the lock; it returns when the address is registered
BrowseFound(x, y) ==
  /\ x # y
  /\ disc.found[x] = <<>>
  /\ disc' = [disc EXCEPT !.found[x] =
                 IF ListenAddr(y) \in DOMAIN disc.peers[x]
                 THEN <<>> ELSE <<y>>]
  /\ UNCHANGED <<storeVars, echo, reg, rl, cl, sm, clk, hc, wb, rd>>

\* net.Dial succeeds: the connection is registered under the dialed address
Dial(x) ==
  /\ disc.found[x] # <<>>
  /\ Len(disc.conns) < MaxConns
  /\ LET y == disc.found[x][1]
         k == Len(disc.conns) + 1
     IN disc' = [disc EXCEPT
                   !.found[x] = <<>>,
                   !.conns = Append(disc.conns,
                                   [dialer |-> x, listener |-> y, open |-> TRUE]),
                   !.queue[y] = Append(disc.queue[y], k),
                   !.peers[x] = addPeer(disc.peers[x], ListenAddr(y), k)]
  /\ UNCHANGED <<storeVars, echo, reg, rl, cl, sm, clk, hc, wb, rd>>

\* net.Dial fails: the callback returns
DialFails(x) ==
  /\ disc.found[x] # <<>>
  /\ disc' = [disc EXCEPT !.found[x] = <<>>]
  /\ UNCHANGED <<storeVars, echo, reg, rl, cl, sm, clk, hc, wb, rd>>

\* the accept loop of y: Accept returns a connection, which is registered
\* under its remote address
Accept(y) ==
  /\ disc.queue[y] # <<>>
  /\ LET k == Head(disc.queue[y])
     IN disc' = [disc EXCEPT
                   !.queue[y] = Tail(disc.queue[y]),
                   !.peers[y] = addPeer(disc.peers[y],
                                        EphAddr(disc.conns[k].dialer, k), k)]
  /\ UNCHANGED <<storeVars, echo, reg, rl, cl, sm, clk, hc, wb, rd>>

\* a read loop of connection k ends (the other side went away, or a read
\* error): handleConn closes the connection and returns
ReadLoopEnds(k) ==
  /\ k \in 1..Len(disc.conns)
  /\ disc.conns[k].open
  /\ disc' = [disc EXCEPT !.conns[k].open = FALSE]
  /\ UNCHANGED <<storeVars, echo, reg, rl, cl, sm, clk, hc, wb, rd>>

\* Broadcast in x: the write to a closed connection fails and its entry is
\* deleted
BroadcastPrunes(x) ==
  /\ disc' = [disc EXCEPT !.peers[x] =
                 [a \in {b \in DOMAIN disc.peers[x] :
                           disc.conns[disc.peers[x][b]].open}
                    |-> disc.peers[x][a]]]
  /\ UNCHANGED <<storeVars, echo, reg, rl, cl, sm, clk, hc, wb, rd>>

DiscoverNext ==
  \/ \E x, y \in Procs : BrowseFound(x, y)
  \/ \E x \in Procs : Dial(x)
  \/ \E x \in Procs : DialFails(x)
  \/ \E y \in Procs : Accept(y)
  \/ \E k \in 1..MaxConns : ReadLoopEnds(k)
  \/ \E x \in Procs : BroadcastPrunes(x)

DiscoverSpec == Init /\ [][DiscoverNext]_vars

\* the process at the other end of connection k of process x
RemoteOf(x, k) ==
  IF disc.conns[k].dialer = x THEN disc.conns[k].listener
  ELSE disc.conns[k].dialer

\* ---------------------------------------------------------- RegistrySpec
\* One registry of any of the three kinds, its accept loop, the read loops
\* of its connections, one Broadcast at a time and the Remove calls.
RegistryInit ==
  /\ StoreInit
  /\ echo = EchoInit
  /\ reg \in {RegNew(i) : i \in Impls}
  /\ disc = DiscInit
  /\ rl = ReadLoopIdle
  /\ cl = CloseInit
  /\ sm = NewSpaceManager
  /\ clk = ClockInit
  /\ hc = HostInit
  /\ wb = NewWhiteboardState
  /\ rd = LockInit

\* the accept loop: the connection is registered under the write lock and
\* its read loop is started
RegAdd ==
  /\ reg.lock = "free"
  /\ reg.added < MaxRegConns
  /\ LET c == reg.added + 1
     IN reg' = [reg EXCEPT !.added = c,
                           !.peers = reg.peers \cup {c},
                           !.open = reg.open \cup {c},
                           !.loops = reg.loops \cup {c}]
  /\ UNCHANGED <<storeVars, echo, disc, rl, cl, sm, clk, hc, wb, rd>>

\* Broadcast (BroadcastExcept, Broadcast(data, exclude)) takes the lock and
\* starts to range over the registry; Transport.Broadcast skips no entry
BroadcastBegin(exclude) ==
  /\ reg.lock = "free"
  /\ reg.bc.pc = "idle"
  /\ exclude \in reg.peers \cup {0}
  /\ reg.impl = "Transport" => exclude = 0
  /\ reg' = [reg EXCEPT !.lock = "held",
                        !.bc = [pc |-> "writing", todo |-> reg.peers \ {exclude},
                                start |-> reg.peers, exclude |-> exclude,
                                writes |-> [c \in reg.peers |-> 0],
                                ran |-> TRUE]]
  /\ UNCHANGED <<storeVars, echo, disc, rl, cl, sm, clk, hc, wb, rd>>

\* one round of the loop; a write to a connection this process closed fails
BroadcastWrite(c, ok) ==
  /\ reg.bc.pc = "writing"
  /\ c \in reg.bc.todo
  /\ ok => c \in reg.open
  /\ reg' = WriteStep(reg, c, ok)
  /\ UNCHANGED <<storeVars, echo, disc, rl, cl, sm, clk, hc, wb, rd>>

\* the loop is over: the lock is released
BroadcastEnd ==
  /\ reg.bc.pc = "writing"
  /\ reg.bc.todo = {}
  /\ reg' = [reg EXCEPT !.lock = "free", !.bc.pc = "idle"]
  /\ UNCHANGED <<storeVars, echo, disc, rl, cl, sm, clk, hc, wb, rd>>

\* the read of connection c returns an error (the remote side closed or
\* reset it, or this process closed it) and the loop returns
RegLoopEnds(c) ==
  /\ c \in reg.loops
  /\ reg' = LoopReturns(reg, c)
  /\ UNCHANGED <<storeVars, echo, disc, rl, cl, sm, clk, hc, wb, rd>>

\* a waiting Remove call gets the write lock
RegRemove(c) ==
  /\ c \in reg.removing
  /\ reg.lock = "free"
  /\ reg' = Remove(reg, c)
  /\ UNCHANGED <<storeVars, echo, disc, rl, cl, sm, clk, hc, wb, rd>>

RegistryNext ==
  \/ RegAdd
  \/ \E exclude \in RegConns \cup {0} : BroadcastBegin(exclude)
  \/ \E c \in RegConns, ok \in BOOLEAN : BroadcastWrite(c, ok)
  \/ BroadcastEnd
  \/ \E c \in RegConns : RegLoopEnds(c)
  \/ \E c \in RegConns : RegRemove(c)

RegistrySpec == RegistryInit /\ [][RegistryNext]_vars

\* ---------------------------------------------------------- ReadLoopSpec
\* One connection and its read loop: the remote side has written some
\* messages; Read returns the bytes in pieces of any size.
ReadLoopInit ==
  /\ StoreInit
  /\ echo = EchoInit
  /\ reg = RegIdle
  /\ disc = DiscInit
  /\ rl \in {ReadLoopNew(k, msgs) :
               k \in Loops, msgs \in SeqsUpTo(Messages, MaxMsgs)}
  /\ cl = CloseInit
  /\ sm = NewSpaceManager
  /\ clk = ClockInit
  /\ hc = HostInit
  /\ wb = NewWhiteboardState
  /\ rd = LockInit

\* Read returns the next n bytes; the loop frames and handles what it can
Read(n) ==
  /\ rl.running
  /\ ~rl.stuck
  /\ n \in 1..Min(Len(rl.wire), ReadBuf)
  /\ LET chunk == SubSeq(rl.wire, 1, n)
         r == OnRead(rl, chunk)
     IN rl' = [r EXCEPT
                 !.wire = SubSeq(rl.wire, n + 1, Len(rl.wire)),
                 !.split = rl.split \/ chunk[n] # Newline,
                 !.multi = rl.multi \/
                   Cardinality({i \in 1..n : chunk[i] = Newline}) > 1]
  /\ UNCHANGED <<storeVars, echo, reg, disc, cl, sm, clk, hc, wb, rd>>

\* the remote side closes after its last byte: Read returns an error, the
\* loop returns and the connection is closed
ReadEOF ==
  /\ rl.running
  /\ rl.wire = <<>>
  /\ rl' = [rl EXCEPT !.running = FALSE, !.open = FALSE, !.eof = TRUE]
  /\ UNCHANGED <<storeVars, echo, reg, disc, cl, sm, clk, hc, wb, rd>>

ReadLoopNext ==
  \/ \E n \in 1..(4 * MaxMsgs) : Read(n)
  \/ ReadEOF

ReadLoopSpec == ReadLoopInit /\ [][ReadLoopNext]_vars

\* ------------------------------------------------------------- QueueSpec
\* One connection of a PeerManager whose Messages channel already holds
\* messages of the other connections; a consumer receives from the channel
\* at any time.
MaxRecv == 2                 \* messages the consumer receives
HeldBefore == {0, ChanCap - 1, ChanCap}
QueueMessages == {Draw, Unknown, <<>>}

QueueInit ==
  /\ StoreInit
  /\ echo = EchoInit
  /\ reg = RegIdle
  /\ disc = DiscInit
  /\ rl \in {[ReadLoopNew("peerManager", msgs) EXCEPT
                !.chan = [i \in 1..k |-> Message(Unknown, OtherAddr)]] :
               msgs \in SeqsUpTo(QueueMessages, MaxMsgs), k \in HeldBefore}
  /\ cl = CloseInit
  /\ sm = NewSpaceManager
  /\ clk = ClockInit
  /\ hc = HostInit
  /\ wb = NewWhiteboardState
  /\ rd = LockInit

\* the consumer receives the oldest message of the channel
Receive ==
  /\ rl.chan # <<>>
  /\ rl.recv < MaxRecv
  /\ rl' = [rl EXCEPT
              !.chan = Tail(rl.chan),
              !.recv = rl.recv + 1,
              !.taken = IF Head(rl.chan).ClientID = Addr
                        THEN Append(rl.taken, Head(rl.chan).Data)
                        ELSE rl.taken]
  /\ UNCHANGED <<storeVars, echo, reg, disc, cl, sm, clk, hc, wb, rd>>

QueueNext ==
  \/ \E n \in 1..(4 * MaxMsgs) : Read(n)
  \/ ReadEOF
  \/ Receive

QueueSpec == QueueInit /\ [][QueueNext]_vars

\* ------------------------------------------------------------- CloseSpec
\* A Transport with its accept loop and read loops, and one call of Close.

\* Accept returns a connection
ClAccept ==
  /\ cl.acc = "accept"
  /\ cl.lis
  /\ cl.made < MaxCloseConns
  /\ cl' = [cl EXCEPT !.acc = "got", !.got = cl.made + 1, !.made = cl.made + 1,
                      !.open = cl.open \cup {cl.made + 1}]
  /\ UNCHANGED <<storeVars, echo, reg, disc, rl, sm, clk, hc, wb, rd>>

\* the accept loop registers the connection (addPeer, under the lock) and
\* starts its handleConn
ClAddPeer ==
  /\ cl.acc = "got"
  /\ cl' = [cl EXCEPT !.acc = "accept", !.got = 0,
                      !.peers = cl.peers \cup {cl.got},
                      !.registered = cl.registered \cup {cl.got},
                      !.loops = cl.loops \cup {cl.got}]
  /\ UNCHANGED <<storeVars, echo, reg, disc, rl, sm, clk, hc, wb, rd>>

\* Accept on the closed listener returns an error: the accept loop returns
\* (Accept and lis.Close() are run by different goroutines, so an Accept that
\* started before the listener was closed may also find it closed)
ClAcceptFails ==
  /\ cl.acc = "accept"
  /\ ~cl.lis
  /\ cl' = [cl EXCEPT !.acc = "returned"]
  /\ UNCHANGED <<storeVars, echo, reg, disc, rl, sm, clk, hc, wb, rd>>

\* Close: the mDNS server is shut down and the listener closed
CloseListener ==
  /\ cl.close = "idle"
  /\ cl' = [cl EXCEPT !.close = "listener", !.lis = FALSE]
  /\ UNCHANGED <<storeVars, echo, reg, disc, rl, sm, clk, hc, wb, rd>>

\* Close: under the lock, every connection in t.peers is closed
ClosePeers ==
  /\ cl.close = "listener"
  /\ cl' = [cl EXCEPT !.close = "done", !.open = cl.open \ cl.peers]
  /\ UNCHANGED <<storeVars, echo, reg, disc, rl, sm, clk, hc, wb, rd>>

\* Scan in handleConn of c returns false, because this process closed the
\* connection or because the remote side did: handleConn closes c and returns
ClLoopEnds(c, remoteClosed) ==
  /\ c \in cl.loops
  /\ c \notin cl.open \/ remoteClosed
  /\ cl' = [cl EXCEPT !.loops = cl.loops \ {c}, !.open = cl.open \ {c}]
  /\ UNCHANGED <<storeVars, echo, reg, disc, rl, sm, clk, hc, wb, rd>>

CloseNext ==
  \/ ClAccept
  \/ ClAddPeer
  \/ ClAcceptFails
  \/ CloseListener
  \/ ClosePeers
  \/ \E c \in 1..MaxCloseConns, remoteClosed \in BOOLEAN :
       ClLoopEnds(c, remoteClosed)

CloseSpec == Init /\ [][CloseNext]_vars

\* ------------------------------------------------------------- SpaceSpec
\* One SpaceManager under AllocateSpace and ClaimSpace calls.
PathsClaimed(s) ==
  Cardinality({<<i, j>> \in (1..Len(s.regions)) \X (1..MaxPaths) :
                 j <= Len(s.regions[i].PathIDs)})

AllocateCall(clientID, requestedArea) ==
  LET r == AllocateSpace(sm, clientID, requestedArea)
  IN /\ sm' = [regions |-> r.regions, allocatedAreas |-> r.allocatedAreas,
               last |-> [op |-> "AllocateSpace", client |-> clientID,
                         req |-> <<requestedArea>>, ret |-> r.ret]]
     /\ UNCHANGED <<storeVars, echo, reg, disc, rl, cl, clk, hc, wb, rd>>

ClaimCall(pathID, owner, points) ==
  /\ PathsClaimed(sm) < MaxPaths
  /\ Len(sm.regions) < MaxRegions
  /\ sm' = [sm EXCEPT !.regions = ClaimSpace(sm, pathID, owner, points),
                      !.last = [op |-> "ClaimSpace", client |-> owner,
                                req |-> <<>>, ret |-> <<>>]]
  /\ UNCHANGED <<storeVars, echo, reg, disc, rl, cl, clk, hc, wb, rd>>

SpaceNext ==
  \/ \E c \in Owners, a \in Areas : AllocateCall(c, a)
  \/ \E id \in PathIDs, o \in Owners, pts \in PointSeqs : ClaimCall(id, o, pts)

SpaceSpec == Init /\ [][SpaceNext]_vars

\* -------------------------------------------------------------- DrawSpec
\* One SpaceManager under a caller that asks CanDrawInArea for every path
\* and calls ClaimSpace only for the paths that were accepted.
PathCount(s) ==
  Cardinality({<<i, j>> \in (1..Len(s.regions)) \X (1..MaxDraws) :
                 j <= Len(s.regions[i].PathIDs)})

DrawCall(pathID, clientID, points) ==
  LET can == CanDrawInArea(sm, clientID, points)
  IN /\ PathCount(sm) < MaxDraws
     /\ sm' = [sm EXCEPT !.regions = IF can
                                     THEN ClaimSpace(sm, pathID, clientID, points)
                                     ELSE sm.regions,
                         !.last = [op |-> "CanDrawInArea", client |-> clientID,
                                   req |-> points, ret |-> <<can>>]]
     /\ UNCHANGED <<storeVars, echo, reg, disc, rl, cl, clk, hc, wb, rd>>

DrawNext ==
  \/ \E c \in Clients, a \in DrawAreas : AllocateCall(c, a)
  \/ \E id \in PathIDs, c \in Clients, pts \in DrawPointSeqs :
       DrawCall(id, c, pts)

DrawSpec == Init /\ [][DrawNext]_vars

\* ------------------------------------------------------------- ClaimSpec
\* One SpaceManager under ClaimSpace calls alone.
MaxClaims == 3               \* paths claimed in a run
ClaimPathIDs == {"s1", "s2"}
ClaimPointSeqs == {<<>>, <<Pos(50, 50)>>, <<Pos(150, 150)>>,
                   <<Pos(50, 50), Pos(150, 150)>>, <<Pos(1150, 850)>>}

ClaimCount(s) ==
  Cardinality({<<i, j>> \in (1..Len(s.regions)) \X (1..MaxClaims) :
                 j <= Len(s.regions[i].PathIDs)})

ClaimOnly(pathID, owner, points) ==
  /\ ClaimCount(sm) < MaxClaims
  /\ sm' = [sm EXCEPT !.regions = ClaimSpace(sm, pathID, owner, points),
                      !.last = [op |-> "ClaimSpace", client |-> owner,
                                req |-> points, ret |-> <<pathID>>]]
  /\ UNCHANGED <<storeVars, echo, reg, disc, rl, cl, clk, hc, wb, rd>>

ClaimNext ==
  \E id \in ClaimPathIDs, o \in Owners, pts \in ClaimPointSeqs :
    ClaimOnly(id, o, pts)

ClaimSpec == Init /\ [][ClaimNext]_vars

\* ------------------------------------------------------------- ClockSpec
\* Goroutines of one process inside EmitLocal.
\* op.Lamport = nextLamport(); op.Site = siteID
Stamp(g) ==
  /\ clk.op[g] = <<>>
  /\ clk.calls < MaxEmits
  /\ clk' = [clk EXCEPT !.lamport = nextLamport(clk.lamport),
                        !.calls = clk.calls + 1,
                        !.op[g] = <<[Lamport |-> nextLamport(clk.lamport),
                                     Site |-> siteID,
                                     seen |-> Len(clk.emitted)]>>]
  /\ UNCHANGED <<storeVars, echo, reg, disc, rl, cl, sm, hc, wb, rd>>

\* OnLocalOp(op)
EmitOp(g) ==
  /\ clk.op[g] # <<>>
  /\ clk' = [clk EXCEPT !.emitted = Append(clk.emitted, clk.op[g][1]),
                        !.op[g] = <<>>]
  /\ UNCHANGED <<storeVars, echo, reg, disc, rl, cl, sm, hc, wb, rd>>

ClockNext == \E g \in Goroutines : Stamp(g) \/ EmitOp(g)

ClockSpec == Init /\ [][ClockNext]_vars

TypeOK ==
  /\ DOMAIN strokes \subseteq IDs
  /\ \A id \in DOMAIN strokes : strokes[id] \in Stroke
  /\ \A i \in 1..Len(order) : order[i] \in IDs
\* ------------------------------------------------------------- AllocSpec
\* AllocateSpace called with the rectangles a caller may pass: AllocateSpace
\* is exported and takes any DrawingArea, also one that crosses the right
\* and bottom edges of the canvas or starts left of it.
EdgeAreas ==
  Areas \cup {[X |-> 1150, Y |-> 850, Width |-> 100, Height |-> 100],
              [X |-> 0 - 50, Y |-> 0, Width |-> 100, Height |-> 100]}

AllocNext ==
  \/ \E c \in Owners, a \in EdgeAreas : AllocateCall(c, a)
  \/ \E o \in Owners : ClaimCall("s1", o, <<Pos(50, 50)>>)

AllocSpec == Init /\ [][AllocNext]_vars

\* -------------------------------------------------------------- HostSpec
\* The session of a host and its clients: clients join, the host and the
\* clients draw and clear. HostSpec runs main.go, Part007Spec runs part_007.
\* A session ends before any client disconnects.
HostInits(impl) ==
  /\ StoreInit
  /\ echo = EchoInit
  /\ reg = RegIdle
  /\ disc = DiscInit
  /\ rl = ReadLoopIdle
  /\ cl = CloseInit
  /\ sm = NewSpaceManager
  /\ clk = ClockInit
  /\ hc = HostNew(impl)
  /\ wb = NewWhiteboardState
  /\ rd = LockInit

HostUnchanged ==
  UNCHANGED <<storeVars, echo, reg, disc, rl, cl, sm, clk, wb, rd>>

\* the draws and clears made so far
TotalOps ==
  LET S[cs \in SUBSET HostClients] ==
        IF cs = {} THEN 0
        ELSE LET c == CHOOSE x \in cs : TRUE
             IN hc.cli[c].sent + S[cs \ {c}]
  IN hc.hops + S[HostClients]

\* Broadcast(data, exclude) by goroutine g takes the read lock: it will
\* write to every registered connection but the excluded one. The step that
\* changes the board before and this one are taken together: Add does not
\* read the board and the snapshot does not read the registry, so every run
\* that has steps between the two has the same effect as one that has none.
ConnManagerBroadcast(g, msg) ==
  LET todo == Targets(hc.conns, IF g = "ui" THEN NoConn ELSE g)
  IN IF todo = {} THEN [IdleBc EXCEPT !.pc = "idle"]
     ELSE [IdleBc EXCEPT !.pc = "bc", !.msg = msg, !.todo = todo,
                         !.start = hc.conns]

\* no Broadcast holds the read lock of the registry
NoReaders == \A g \in HostGoroutines : hc.bc[g].pc # "bc"

\* the client dials, the host accepts: connManager.Add, then the goroutine
\* that sends the current state and the handler of the connection start
Connect(c) ==
  /\ hc.cli[c].st = "new"
  /\ NoReaders
  /\ hc' = [hc EXCEPT !.cli[c].st = "conn",
                      !.conns = hc.conns \cup {c},
                      !.sy[c].pc = "sleep",
                      !.bc[c].pc = "idle"]
  /\ HostUnchanged

\* sendCurrentStateToClient after the delay: the paths are read
SyncSnapshot(c) ==
  /\ hc.sy[c].pc = "sleep"
  /\ LET paths == GetAllPaths(hc.board)
     IN hc' = [hc EXCEPT !.sy[c] = IF paths = {}
                                   THEN [pc |-> "done", snap |-> {}]
                                   ELSE [pc |-> "write", snap |-> paths]]
  /\ HostUnchanged

\* sendCurrentStateToClient: the sync_state message is written
SyncWrite(c) ==
  /\ hc.sy[c].pc = "write"
  /\ hc' = [hc EXCEPT !.sy[c] = [pc |-> "done", snap |-> {}],
                      !.wire[c] = ConnWrite(hc.wire[c], SyncMsg(hc.sy[c].snap))]
  /\ HostUnchanged

\* OnNewPath of the host: the path is added to the board
HostDraw ==
  /\ hc.bc["ui"].pc = "idle"
  /\ TotalOps < MaxOps
  /\ LET p == Path(Host, hc.hops + 1)
     IN hc' = [hc EXCEPT !.board = BoardAddRemotePath(hc.board, p),
                         !.hops = hc.hops + 1,
                         !.bc["ui"] =
                            ConnManagerBroadcast("ui", DrawMsg(p, hc.hops + 1))]
  /\ HostUnchanged

\* OnClear of the host: part_007 clears the board of the host, main.go only
\* broadcasts
HostClear ==
  /\ hc.bc["ui"].pc = "idle"
  /\ TotalOps < MaxOps
  /\ hc' = [hc EXCEPT !.board = IF hc.impl = "main" THEN hc.board
                                ELSE ClearRemote(hc.board, Host),
                      !.hops = hc.hops + 1,
                      !.cleared = TRUE,
                      !.bc["ui"] =
                         ConnManagerBroadcast("ui", ClearMsg(Host, hc.hops + 1))]
  /\ HostUnchanged

\* Broadcast writes to one connection; after the last write it releases the
\* read lock and returns
ConnManagerWrite(g, d) ==
  /\ hc.bc[g].pc = "bc"
  /\ d \in hc.bc[g].todo
  /\ hc' = [hc EXCEPT
              !.wire[d] = ConnWrite(hc.wire[d], hc.bc[g].msg),
              !.bc[g] = IF hc.bc[g].todo = {d}
                        THEN [IdleBc EXCEPT !.pc = "idle"]
                        ELSE [hc.bc[g] EXCEPT
                                !.todo = hc.bc[g].todo \ {d},
                                !.wrote[d] = hc.bc[g].wrote[d] + 1]]
  /\ HostUnchanged

\* handleHostConnection reads the next message of its client and applies it
\* to the board of the host
HandlerRead(c) ==
  /\ hc.bc[c].pc = "idle"
  /\ hc.cli[c].out # <<>>
  /\ LET msg == Head(hc.cli[c].out)
     IN hc' = [hc EXCEPT !.board = HostOnMessage(hc.board, msg),
                         !.cli[c].out = Tail(hc.cli[c].out),
                         !.bc[c] = ConnManagerBroadcast(c, msg)]
  /\ HostUnchanged

\* OnNewPath of the client: part_007 adds the path to the board of the client
\* before it sends it; with main.go the board keeps the path it has drawn
\* itself (connectToHost: "the UI handles that") and the callback only sends
ClientDraw(c) ==
  /\ hc.cli[c].st = "conn"
  /\ TotalOps < MaxOps
  /\ LET n == hc.cli[c].sent + 1
         p == Path(c, n)
     IN hc' = [hc EXCEPT
                 !.cli[c].board = BoardAddRemotePath(hc.cli[c].board, p),
                 !.cli[c].sent = n,
                 !.cli[c].out = ConnWrite(hc.cli[c].out, DrawMsg(p, n))]
  /\ HostUnchanged

\* OnClear of the client: part_007 clears the client's own paths, main.go
\* only sends the message
ClientClear(c) ==
  /\ hc.cli[c].st = "conn"
  /\ TotalOps < MaxOps
  /\ LET n == hc.cli[c].sent + 1
     IN hc' = [hc EXCEPT
                 !.cli[c].board = IF hc.impl = "main" THEN hc.cli[c].board
                                  ELSE ClearRemote(hc.cli[c].board, c),
                 !.cli[c].sent = n,
                 !.cli[c].clearN = n,
                 !.cli[c].out = ConnWrite(hc.cli[c].out, ClearMsg(c, n))]
  /\ HostUnchanged

\* the read loop of the client handles the next message of the host
ClientRecv(c) ==
  /\ hc.cli[c].st = "conn"
  /\ hc.wire[c] # <<>>
  /\ LET msg == Head(hc.wire[c])
     IN hc' = [hc EXCEPT
                 !.cli[c].board =
                    ClientOnMessage(hc.impl, hc.cli[c].board, c, msg),
                 !.wire[c] = Tail(hc.wire[c]),
                 !.cli[c].ownClear = hc.cli[c].ownClear \/
                    (msg.Type = "clear" /\ msg.from = c),
                 !.last[c] = IF msg.from \in Senders
                             THEN [hc.last[c] EXCEPT ![msg.from] = msg.n]
                             ELSE hc.last[c]]
  /\ HostUnchanged

HostNext ==
  \/ \E c \in HostClients : Connect(c)
  \/ \E c \in HostClients : SyncSnapshot(c)
  \/ \E c \in HostClients : SyncWrite(c)
  \/ HostDraw
  \/ HostClear
  \/ \E g \in HostGoroutines, d \in HostClients : ConnManagerWrite(g, d)
  \/ \E c \in HostClients : HandlerRead(c)
  \/ \E c \in HostClients : ClientDraw(c)
  \/ \E c \in HostClients : ClientClear(c)
  \/ \E c \in HostClients : ClientRecv(c)

HostSpec == HostInits("main") /\ [][HostNext]_vars

Part007Spec == HostInits("part_007") /\ [][HostNext]_vars

\* -------------------------------------------------------------- LockSpec
\* The writing goroutine calls Apply or restore
WriterCall(call) ==
  /\ rd.wpc = "idle"
  /\ rd.calls < MaxLockCalls
  /\ rd' = [rd EXCEPT !.wpc = "lock", !.call = call, !.calls = rd.calls + 1]
  /\ UNCHANGED <<storeVars, echo, reg, disc, rl, cl, sm, clk, hc, wb>>

\* mu.Lock() returns
WriterLock ==
  /\ rd.wpc = "lock"
  /\ CanLock(rd.mu)
  /\ rd' = [rd EXCEPT !.wpc = "held", !.mu.w = TRUE,
                      !.todo = Writes(rd.state, rd.call)]
  /\ UNCHANGED <<storeVars, echo, reg, disc, rl, cl, sm, clk, hc, wb>>

\* the next write to the map or to the order list
WriterWrite ==
  /\ rd.wpc = "held"
  /\ rd.todo # <<>>
  /\ rd' = [rd EXCEPT !.state = Write(rd.state, Head(rd.todo)),
                      !.todo = Tail(rd.todo)]
  /\ UNCHANGED <<storeVars, echo, reg, disc, rl, cl, sm, clk, hc, wb>>

\* the deferred mu.Unlock()
WriterUnlock ==
  /\ rd.wpc = "held"
  /\ rd.todo = <<>>
  /\ rd' = [rd EXCEPT
              !.wpc = "idle", !.mu.w = FALSE, !.committed = rd.state,
              !.seen = IF rd.rpc = "idle" THEN rd.seen
                       ELSE rd.seen \cup {Strokes(rd.state)}]
  /\ UNCHANGED <<storeVars, echo, reg, disc, rl, cl, sm, clk, hc, wb>>

\* the reading goroutine calls Strokes()
ReaderCall ==
  /\ rd.rpc = "idle"
  /\ rd' = [rd EXCEPT !.rpc = "rlock", !.returned = FALSE, !.ret = <<>>,
                      !.seen = {Strokes(rd.committed)}]
  /\ UNCHANGED <<storeVars, echo, reg, disc, rl, cl, sm, clk, hc, wb>>

\* mu.RLock() returns; range s.order takes the order list
ReaderRLock ==
  /\ rd.rpc = "rlock"
  /\ CanRLock(rd.mu)
  /\ rd' = [rd EXCEPT !.rpc = "held", !.mu.r = rd.mu.r + 1,
                      !.ord = rd.state.order, !.out = <<>>]
  /\ UNCHANGED <<storeVars, echo, reg, disc, rl, cl, sm, clk, hc, wb>>

\* one pass of the loop: the id is looked up in the map
ReaderLookup ==
  /\ rd.rpc = "held"
  /\ rd.ord # <<>>
  /\ rd' = [rd EXCEPT
              !.ord = Tail(rd.ord),
              !.out = IF Head(rd.ord) \in DOMAIN rd.state.strokes
                      THEN Append(rd.out, rd.state.strokes[Head(rd.ord)])
                      ELSE rd.out]
  /\ UNCHANGED <<storeVars, echo, reg, disc, rl, cl, sm, clk, hc, wb>>

\* the sort, the return and the deferred mu.RUnlock()
ReaderReturn ==
  /\ rd.rpc = "held"
  /\ rd.ord = <<>>
  /\ rd' = [rd EXCEPT !.rpc = "idle", !.mu.r = rd.mu.r - 1,
                      !.ret = SliceStable(rd.out), !.returned = TRUE,
                      !.out = <<>>]
  /\ UNCHANGED <<storeVars, echo, reg, disc, rl, cl, sm, clk, hc, wb>>

LockNext ==
  \/ \E call \in LockCalls : WriterCall(call)
  \/ WriterLock
  \/ WriterWrite
  \/ WriterUnlock
  \/ ReaderCall
  \/ ReaderRLock
  \/ ReaderLookup
  \/ ReaderReturn

LockSpec == Init /\ [][LockNext]_vars

\* -------------------------------------------------------- WhiteboardSpec
\* One WhiteboardState: paths drawn here, paths received from the other
\* sites, and states of the other sites merged in.
RemoteStamps == 1..MaxStamp

\* the operations another site holds for the paths it has drawn itself
OtherOperations ==
  SUBSET {PathOperation(PathID(s, t), <<s>>, t) :
            s \in RemoteSites, t \in RemoteStamps}

AddLocalPathCall ==
  /\ wb.clock < MaxClock
  /\ wb' = AddLocalPath(wb)
  /\ UNCHANGED <<storeVars, echo, reg, disc, rl, cl, sm, clk, hc, rd>>

AddRemotePathCall(s, t) ==
  /\ wb' = AddRemotePath(wb, PathID(s, t), t)
  /\ UNCHANGED <<storeVars, echo, reg, disc, rl, cl, sm, clk, hc, rd>>

MergeCall(ops) ==
  /\ wb' = Merge(wb, ops)
  /\ UNCHANGED <<storeVars, echo, reg, disc, rl, cl, sm, clk, hc, rd>>

WhiteboardNext ==
  \/ AddLocalPathCall
  \/ \E s \in RemoteSites \cup {LocalSite}, t \in RemoteStamps :
       AddRemotePathCall(s, t)
  \/ \E ops \in OtherOperations : MergeCall(ops)

WhiteboardSpec == Init /\ [][WhiteboardNext]_vars

\* ------------------------------------------------------------------ claims
Holds(g, id) == {k \in DOMAIN g.strokes : g.strokes[k].ID = id}

IsInsertOf(op) ==
  op.Type = OpInsertStroke /\ op.Stroke # <<>> /\ op.Stroke[1].ID # ""

\* C1: an Insert with a non-empty stroke ID that is applied twice in a row
\* leaves exactly one stroke with that ID in the store; the second Apply
\* returns false and changes neither the stroke map nor the order list
\* (repA applied it once, repB twice).
C1_InsertIdempotent ==
  (scen.kind = "redelivered" /\ ~scen.gap /\ ~scen.more /\ IsInsertOf(scen.x))
    => /\ Cardinality(Holds(repB, OpID(scen.x))) = 1
       /\ OpID(scen.x) \in DOMAIN repB.strokes
       /\ scen.ret = FALSE
       /\ repB = repA

C1_Witness ==
  /\ scen.kind = "redelivered" /\ ~scen.gap /\ ~scen.more
  /\ IsInsertOf(scen.x)
  /\ repB.strokes[OpID(scen.x)] = scen.x.Stroke[1]

\* C2: an Insert whose stroke is nil, whose ID is empty or whose ID is
\* already stored returns false and leaves the stroke map and the order list
\* as they are, so a stored stroke keeps the content of its first insert.
C2_InsertRejected ==
  \A op \in Ops :
    (op.Type = OpInsertStroke
       /\ (op.Stroke = <<>> \/ op.Stroke[1].ID = ""
             \/ op.Stroke[1].ID \in DOMAIN strokes))
      => Apply(store, op) = [strokes |-> strokes, order |-> order, ret |-> FALSE]

C2_Witness ==
  /\ last.call = "Apply" /\ last.kind = OpInsertStroke /\ last.ret = "false"
  /\ last.id # "" /\ last.id \in DOMAIN strokes

\* C3: a Delete whose (non-empty) target is not stored leaves the store
\* unchanged, and an Insert of a stroke with that ID right after it is
\* accepted and stored.
C3_DeleteMissingNoResidue ==
  \A id \in IDs \ {""} :
    id \notin DOMAIN strokes =>
      LET d == Apply(store, DeleteOp(id))
      IN /\ StoreOf(d) = store
         /\ \A st \in Stroke :
              st.ID = id =>
                LET i == Apply(StoreOf(d), InsertOp(st))
                IN /\ i.ret = TRUE
                   /\ id \in DOMAIN i.strokes
                   /\ i.strokes[id] = st
                   /\ i.order = Append(order, id)

C3_Witness ==
  /\ last.call = "Apply" /\ last.kind = OpInsertStroke /\ last.ret = "true"
  /\ last.miss # "" /\ last.miss = last.id
  /\ last.id \in DOMAIN strokes
Swapped == scen.kind = "swapped" /\ ~scen.more
BothInserts == scen.x.Type = OpInsertStroke /\ scen.y.Type = OpInsertStroke

\* C4 as stated: for any two Inserts A and B, a store that applies A then B
\* and a store that applies B then A hold the same stroke IDs with the same
\* contents.
C4_InsertsCommute ==
  (Swapped /\ BothInserts) => repA.strokes = repB.strokes

\* C4 as amended: the two stores hold the same stroke IDs, and the same
\* content under every ID other than one that A and B both carry; under an ID
\* that A and B share, the contents agree when A and B are the same operation.
C4_InsertsCommuteByID ==
  (Swapped /\ BothInserts) =>
    /\ DOMAIN repA.strokes = DOMAIN repB.strokes
    /\ \A k \in DOMAIN repA.strokes :
         (k # OpID(scen.x) \/ OpID(scen.x) # OpID(scen.y) \/ scen.x = scen.y)
           => repA.strokes[k] = repB.strokes[k]

C4_Witness ==
  /\ Swapped
  /\ IsInsertOf(scen.x) /\ IsInsertOf(scen.y)
  /\ OpID(scen.x) # OpID(scen.y)
  /\ repA.order = <<OpID(scen.x), OpID(scen.y)>>
  /\ repB.order = <<OpID(scen.y), OpID(scen.x)>>

\* C5 as stated: a stream with one of its operations delivered a second time
\* at any later position ends with the same stroke set as the stream without
\* the duplicate (repA got the stream, repB the stream with the duplicate).
C5_RedeliverySafe ==
  scen.kind = "redelivered" => repA.strokes = repB.strokes

\* C5 as amended: the same, provided no operation delivered between the two
\* deliveries clashes with the duplicated one (deletes the stroke ID it
\* inserts, or inserts the stroke ID it deletes); the second delivery then
\* changes nothing.
C5_RedeliverySafeNoClash ==
  (scen.kind = "redelivered" /\ ~scen.clash) => repA = repB

C5_Witness ==
  /\ scen.kind = "redelivered" /\ scen.gap /\ ~scen.clash /\ scen.more
  /\ IsInsertOf(scen.x)
  /\ Cardinality(DOMAIN repB.strokes) = 2

\* C6: two stores that hold the same strokes, reached by applying the
\* operations in different orders, return the same sequence from Strokes(),
\* also when strokes carry equal timestamps.
C6_RenderOrderIndependent ==
  repA.strokes = repB.strokes => Strokes(repA) = Strokes(repB)

\* C7: Strokes() returns every stored stroke exactly once, sorted by
\* timestamp ascending, strokes with equal timestamps in the order in which
\* they were inserted (their order in the order list).
C7_StrokesSortedOnce ==
  LET out == Strokes(store)
  IN /\ \A id \in DOMAIN strokes :
          Cardinality({i \in 1..Len(out) : out[i] = strokes[id]}) = 1
     /\ Len(out) = Cardinality(DOMAIN strokes)
     /\ \A i, j \in 1..Len(out) :
          i < j =>
            /\ out[i].Time <= out[j].Time
            /\ out[i].Time = out[j].Time =>
                 \E p, q \in 1..Len(order) :
                   p < q /\ order[p] = out[i].ID /\ order[q] = out[j].ID
\* C8: a Load of a file that is missing, unreadable or not parseable as a
\* stroke array returns an error, and a Load that returns an error leaves the
\* stroke map and the order list exactly as they were.
Unloadable(f) ==
  \/ f.kind \in {"missing", "unreadable", "garbage"}
  \/ \E i \in 1..Len(f.doc) : f.doc[i].Color = "object"

C8_FailedLoadKeepsState ==
  \A f \in Files :
    LET r == Load(store, f)
    IN /\ Unloadable(f) => r.ret = "err"
       /\ r.ret = "err" => (r.strokes = strokes /\ r.order = order)

C8_Witness ==
  /\ last.call = "Load" /\ last.ret = "err" /\ last.kind = "garbage"
  /\ last.had = 2
  /\ Cardinality(DOMAIN strokes) = 2

\* C9: after a successful Load the store contains exactly the strokes of the
\* loaded array, and no stroke of the previous state that is not in the array.
RangeOf(q) == {q[i] : i \in 1..Len(q)}

C9_LoadReplaces ==
  [][\A f \in Files :
       (LoadCall(f) /\ last'.ret = "nil")
         => {strokes'[k] : k \in DOMAIN strokes'} = RangeOf(Unmarshal(f).loaded)]_vars

\* C10: Save followed by Load of the same file is a round trip: the Load
\* succeeds and Strokes() returns the sequence it returned before the Save.
StrokesNow == Strokes(store)

CountID(q, id) == Cardinality({i \in 1..Len(q) : q[i].ID = id})

C11_LoopbackDedup ==
  \A id \in echo.echoed :
    /\ id \in DOMAIN echo.store.strokes
    /\ Cardinality({i \in 1..Len(echo.store.order) : echo.store.order[i] = id}) = 1
    /\ CountID(Strokes(echo.store), id) = 1

\* an echoed insert that the read loop decoded and handed to Apply, with
\* both peers having read the broadcast
C11_Witness ==
  /\ \E id \in echo.echoed : echo.store.strokes[id].Color = "nil"
  /\ Cardinality(echo.echoed) = 2
  /\ echo.back = <<>>

\* C12: in any run where two Transport processes discover each other (each
\* accepts from the other and is offered its address), the registry of a
\* process never holds two connections to the same remote process (counting
\* only connections that are still open).
C12_NoDuplicateLinks ==
  \A x \in Procs :
    \A a, b \in DOMAIN disc.peers[x] :
      (a # b /\ disc.conns[disc.peers[x][a]].open
             /\ disc.conns[disc.peers[x][b]].open)
        => RemoteOf(x, disc.peers[x][a]) # RemoteOf(x, disc.peers[x][b])

\* C13: Broadcast writes the operation exactly once to every peer that is
\* registered when it runs (and that it was not told to skip): a write that
\* fails neither stops the loop nor skips another peer.
C13_BroadcastWritesAll ==
  /\ reg.bc.pc = "writing" =>
       \A c \in reg.bc.start \ {reg.bc.exclude} :
         reg.bc.writes[c] = IF c \in reg.bc.todo THEN 0 ELSE 1
  /\ (reg.bc.pc = "idle" /\ reg.bc.ran) =>
       \A c \in reg.bc.start \ {reg.bc.exclude} : reg.bc.writes[c] = 1

\* a finished Transport.Broadcast over three peers where a write failed
\* and another did not
C13_Witness ==
  /\ reg.impl = "Transport"
  /\ reg.bc.pc = "idle" /\ reg.bc.ran
  /\ Cardinality(reg.bc.start) = 3
  /\ reg.bc.start \cap reg.failed # {}
  /\ reg.bc.start \cap reg.peers # {}

\* C14: in each of the three Broadcast implementations a write failure on a
\* peer removes that peer from the registry: once the Broadcast and the Remove
\* calls that wait for the lock have completed, no peer a write failed on is
\* registered (so no later Broadcast writes to it).
C14_FailedPeerRemoved ==
  (reg.bc.pc = "idle" /\ reg.removing = {}) => reg.failed \cap reg.peers = {}

\* C15: a Broadcast never removes a peer from the registry while it holds
\* the registry lock it iterates under (no step that starts and ends with
\* the lock held by the Broadcast changes the registry), and the lock is
\* only ever held by a Broadcast that is running and will release it, so no
\* task waits for it forever.
C15_NoRemovalUnderLock ==
  [][/\ (reg.lock = "held" /\ reg'.lock = "held") => reg'.peers = reg.peers
     /\ reg'.lock = "held" => reg'.bc.pc = "writing"]_vars

\* C16: when the read loop of a Transport peer has ended (read error or
\* remote close), the registry no longer lists that peer, so that no later
\* Broadcast attempts a write to it.
C16_DisconnectedPeerRemoved ==
  reg.impl = "Transport" =>
    \A c \in 1..reg.added : c \notin reg.loops => c \notin reg.peers

\* C17: in Transport.handleConn and in both versions of handleHostConnection
\* a message that cannot be parsed or has an unknown kind is dropped without
\* closing the connection (the loop closes it only when the remote side has),
\* and every well-formed message of a known kind that follows is still
\* processed: when all bytes are read, the messages handled are the Draw
\* messages sent.
IsDraw(m) == m = Draw

C17_MalformedDropped ==
  rl.kind \in {"handleConn", "hostNewline", "hostDecoder"} =>
    /\ ~rl.eof => (rl.open /\ rl.running)
    /\ rl.wire = <<>> =>
         SelectSeq(rl.handled, IsDraw) = SelectSeq(rl.sent, IsDraw)

\* C18: framing does not depend on how the byte stream is cut into reads:
\* whatever the sizes of the reads, the newline-delimited loops cut out the
\* non-empty messages that were sent, in order and each once (what is framed
\* is always a prefix of them, and all of them once every byte is read).
C18_FramingChunkIndependent ==
  rl.kind \in NewlineLoops =>
    /\ Len(rl.framed) <= Len(NonEmpty(rl.sent))
    /\ rl.framed = SubSeq(NonEmpty(rl.sent), 1, Len(rl.framed))
    /\ rl.wire = <<>> => (rl.framed = NonEmpty(rl.sent) /\ rl.buffer = <<>>)

\* three messages were framed although one Read ended inside a message and
\* another returned several messages at once
C18_Witness ==
  /\ rl.kind = "hostNewline"
  /\ rl.wire = <<>>
  /\ rl.split /\ rl.multi
  /\ Len(rl.framed) = 3

\* C19: after Transport.Close, under any interleaving with the accept loop
\* and the read loops, eventually the accept loop has terminated, every
\* connection that was ever registered is closed and every read loop has
\* terminated: once Close has returned, the accept loop has returned and no
\* read loop has an error left to observe, no registered connection is open
\* and no read loop is running.
C19_CloseClosesAll ==
  (cl.close = "done" /\ cl.acc = "returned" /\ cl.loops \subseteq cl.open)
    => (cl.registered \cap cl.open = {} /\ cl.loops = {})

\* C20: AllocateSpace is first-fit over a fixed candidate order: a requested
\* rectangle that overlaps no region is granted unchanged; otherwise the
\* result is the first of the candidates below, above, right, left (same
\* width and height) that overlaps no region and lies within the canvas; if
\* there is none the result is none. A granted area is recorded for the client.
Below(a) == [a EXCEPT !.Y = a.Y + a.Height + Margin]
Above(a) == [a EXCEPT !.Y = a.Y - a.Height - Margin]
RightOf(a) == [a EXCEPT !.X = a.X + a.Width + Margin]
LeftOf(a) == [a EXCEPT !.X = a.X - a.Width - Margin]
Candidates(a) == <<Below(a), Above(a), RightOf(a), LeftOf(a)>>
Qualifies(a) == ~isAreaOccupied(sm, a) /\ isAreaInBounds(a)

FirstFit(a) ==
  IF ~isAreaOccupied(sm, a) THEN <<a>>
  ELSE LET ok == {i \in 1..4 : Qualifies(Candidates(a)[i])}
       IN IF ok = {} THEN <<>> ELSE <<Candidates(a)[MinOf(ok)]>>

C20_AllocateFirstFit ==
  /\ \A c \in Owners, a \in Areas :
       LET r == AllocateSpace(sm, c, a)
       IN /\ r.ret = FirstFit(a)
          /\ r.ret # <<>> => r.allocatedAreas[c] = r.ret[1]
  /\ sm.last.op = "AllocateSpace" =>
       /\ sm.last.ret = FirstFit(sm.last.req[1])
       /\ sm.last.ret # <<>> => sm.allocatedAreas[sm.last.client] = sm.last.ret[1]

\* a call that was answered with the third candidate (right): the requested
\* rectangle and the one above it are occupied, the one below is off the canvas
C20_Witness ==
  /\ sm.last.op = "AllocateSpace"
  /\ isAreaOccupied(sm, sm.last.req[1])
  /\ sm.last.ret = <<RightOf(sm.last.req[1])>>
\* C21: alternative placement. When the requested rectangle is occupied and
\* the rectangle directly below it is free and in bounds, AllocateSpace
\* returns that rectangle: Y is the requested Y plus the rectangle's height
\* plus 10, X, width and height are unchanged. When all four candidates are
\* occupied or out of bounds it returns none.
BelowFree(a) ==
  LET b == [X |-> a.X, Y |-> a.Y + a.Height + 10,
            Width |-> a.Width, Height |-> a.Height]
  IN /\ \A i \in 1..Len(sm.regions) : ~regionsOverlap(b, sm.regions[i].Area)
     /\ b.X >= 0 /\ b.Y >= 0
     /\ b.X + b.Width <= 1200 /\ b.Y + b.Height <= 900

NoneFree(a) == \A i \in 1..4 : ~Qualifies(Candidates(a)[i])

AlternativePlacement(a, ret) ==
  /\ isAreaOccupied(sm, a) /\ BelowFree(a) =>
       /\ ret # <<>>
       /\ ret[1].X = a.X /\ ret[1].Y = a.Y + a.Height + 10
       /\ ret[1].Width = a.Width /\ ret[1].Height = a.Height
  /\ isAreaOccupied(sm, a) /\ NoneFree(a) => ret = <<>>

C21_AlternativePlacement ==
  /\ \A c \in Owners, a \in Areas :
       AlternativePlacement(a, AllocateSpace(sm, c, a).ret)
  /\ sm.last.op = "AllocateSpace" =>
       AlternativePlacement(sm.last.req[1], sm.last.ret)

\* a call that returned none: the requested rectangle is occupied and every
\* candidate is occupied or off the canvas
C21_Witness ==
  /\ sm.last.op = "AllocateSpace"
  /\ isAreaOccupied(sm, sm.last.req[1])
  /\ NoneFree(sm.last.req[1])
  /\ sm.last.ret = <<>>
\* C22: allocated areas are exclusive. After AllocateSpace granted owner A a
\* rectangle as requested, an AllocateSpace call by a different owner B for
\* the same rectangle returns the below alternative, and at no time do the
\* current allocated areas of two different owners overlap.
AreasIntersect(a, b) ==
  /\ a.X < b.X + b.Width /\ b.X < a.X + a.Width
  /\ a.Y < b.Y + b.Height /\ b.Y < a.Y + a.Height

C22_AllocatedAreasExclusive ==
  /\ \A a, b \in DOMAIN sm.allocatedAreas :
       a # b => ~AreasIntersect(sm.allocatedAreas[a], sm.allocatedAreas[b])
  /\ sm.last.op = "AllocateSpace" /\ sm.last.ret # <<>> =>
       \A o \in DOMAIN sm.allocatedAreas \ {sm.last.client} :
         sm.allocatedAreas[o] = sm.last.req[1] =>
           sm.last.ret = <<Below(sm.last.req[1])>>
\* C23: region exclusivity. In every state reachable by AllocateSpace calls
\* and by ClaimSpace calls made only for point sets that CanDrawInArea
\* accepted for that owner, no two regions owned by different identities
\* overlap: no point lies in both.
SharePoint(a, b) ==
  /\ a.X <= b.X + b.Width /\ b.X <= a.X + a.Width
  /\ a.Y <= b.Y + b.Height /\ b.Y <= a.Y + a.Height

C23_RegionExclusivity ==
  \A i, j \in 1..Len(sm.regions) :
    sm.regions[i].Owner # sm.regions[j].Owner =>
      ~SharePoint(sm.regions[i].Area, sm.regions[j].Area)
\* C24 as stated: the identity "host" is always permitted; CanDrawInArea
\* returns true for host for every point set and every arbiter state.
AllPointSeqs == PointSeqs \cup DrawPointSeqs

C24_HostAlwaysPermitted ==
  /\ \A pts \in AllPointSeqs : CanDrawInArea(sm, Host, pts)
  /\ sm.last.op = "CanDrawInArea" /\ sm.last.client = Host =>
       sm.last.ret = <<TRUE>>

\* C24 amended: CanDrawInArea returns true for host for every point set that
\* is not empty, whether or not host has an allocated area and whether or
\* not the points fall into other owners' regions; for the empty point set
\* it returns false.
C24_HostPermittedNonEmpty ==
  /\ \A pts \in AllPointSeqs : CanDrawInArea(sm, Host, pts) <=> Len(pts) > 0
  /\ sm.last.op = "CanDrawInArea" /\ sm.last.client = Host =>
       sm.last.ret = <<Len(sm.last.req) > 0>>

\* host was permitted a point inside another owner's region while holding
\* no allocated area
C24_Witness ==
  /\ sm.last.op = "CanDrawInArea" /\ sm.last.client = Host
  /\ Host \notin DOMAIN sm.allocatedAreas
  /\ sm.last.ret = <<TRUE>>
  /\ \E i \in 1..Len(sm.regions), k \in 1..Len(sm.last.req) :
       /\ sm.regions[i].Owner # Host
       /\ pointInArea(sm.last.req[k], sm.regions[i].Area)
\* C25 as stated: for a non-host owner CanDrawInArea returns true exactly
\* when the owner has a current allocated area, every point lies inside that
\* area and no point lies inside a region owned by a different identity.
Inside(p, a) ==
  /\ a.X <= p.X /\ p.X <= a.X + a.Width
  /\ a.Y <= p.Y /\ p.Y <= a.Y + a.Height

InForeignRegion(p, c) ==
  \E i \in 1..Len(sm.regions) :
    sm.regions[i].Owner # c /\ Inside(p, sm.regions[i].Area)

Permitted(c, pts) ==
  /\ c \in DOMAIN sm.allocatedAreas
  /\ \A i \in 1..Len(pts) : Inside(pts[i], sm.allocatedAreas[c])
  /\ \A i \in 1..Len(pts) : ~InForeignRegion(pts[i], c)

C25_CanDrawExactly ==
  /\ \A c \in Owners, pts \in AllPointSeqs :
       CanDrawInArea(sm, c, pts) <=> Permitted(c, pts)
  /\ sm.last.op = "CanDrawInArea" /\ sm.last.client # Host =>
       sm.last.ret = <<Permitted(sm.last.client, sm.last.req)>>

\* C25 amended: for a non-host owner and a point set that is not empty,
\* CanDrawInArea returns true exactly when the owner has a current allocated
\* area, every point lies inside that area and no point lies inside a region
\* owned by a different identity; for an empty point set it returns false.
C25_CanDrawExactlyNonEmpty ==
  /\ \A c \in Owners, pts \in AllPointSeqs :
       CanDrawInArea(sm, c, pts) <=> (Len(pts) > 0 /\ Permitted(c, pts))
  /\ sm.last.op = "CanDrawInArea" /\ sm.last.client # Host =>
       sm.last.ret =
         <<Len(sm.last.req) > 0 /\ Permitted(sm.last.client, sm.last.req)>>

\* an owner was refused a point that lies inside its allocated area and
\* inside a region of another owner
C25_Witness ==
  /\ sm.last.op = "CanDrawInArea" /\ sm.last.client \in Owners
  /\ sm.last.client \in DOMAIN sm.allocatedAreas
  /\ Len(sm.last.req) > 0
  /\ \A k \in 1..Len(sm.last.req) :
       Inside(sm.last.req[k], sm.allocatedAreas[sm.last.client])
  /\ \E k \in 1..Len(sm.last.req) :
       InForeignRegion(sm.last.req[k], sm.last.client)
  /\ sm.last.ret = <<FALSE>>
\* C26: ClaimSpace computes the bounding box of the points padded by 10 on
\* every side and then either replaces one existing overlapping region of
\* the same owner by the bounding union of the two, with the stroke ID
\* appended to its list, or, if no same-owner region overlaps, appends one
\* new region; all other regions are left unchanged.
PaddedBox(pts) ==
  LET xs == {pts[i].X : i \in 1..Len(pts)}
      ys == {pts[i].Y : i \in 1..Len(pts)}
      x1 == CHOOSE x \in xs : \A y \in xs : x <= y
      x2 == CHOOSE x \in xs : \A y \in xs : x >= y
      y1 == CHOOSE x \in ys : \A y \in ys : x <= y
      y2 == CHOOSE x \in ys : \A y \in ys : x >= y
  IN [X |-> x1 - 10, Y |-> y1 - 10,
      Width |-> x2 - x1 + 20, Height |-> y2 - y1 + 20]

\* r is the smallest rectangle that contains a and b
BoundingUnion(r, a, b) ==
  /\ r.X = Min(a.X, b.X) /\ r.Y = Min(a.Y, b.Y)
  /\ r.X + r.Width = -Min(-(a.X + a.Width), -(b.X + b.Width))
  /\ r.Y + r.Height = -Min(-(a.Y + a.Height), -(b.Y + b.Height))

ClaimEffect(old, new, id, o, pts) ==
  LET box == PaddedBox(pts)
      same == {i \in 1..Len(old) :
                 old[i].Owner = o /\ SharePoint(box, old[i].Area)}
  IN IF same = {}
     THEN new = Append(old, [Area |-> box, Owner |-> o, PathIDs |-> <<id>>])
     ELSE /\ Len(new) = Len(old)
          /\ \E i \in same :
               /\ BoundingUnion(new[i].Area, old[i].Area, box)
               /\ new[i].Owner = o
               /\ new[i].PathIDs = Append(old[i].PathIDs, id)
               /\ \A j \in 1..Len(old) : j # i => new[j] = old[j]

C26_ClaimSpaceEffect ==
  [][sm'.last.op = "ClaimSpace" /\ Len(sm'.last.req) > 0 =>
       ClaimEffect(sm.regions, sm'.regions, sm'.last.ret[1],
                   sm'.last.client, sm'.last.req)]_vars

\* a claim was merged into a region of its owner while a region of the other
\* owner is in the list
C26_Witness ==
  /\ sm.last.op = "ClaimSpace" /\ Len(sm.last.req) > 0
  /\ Len(sm.regions) = 2
  /\ \E i, j \in 1..2 :
       /\ sm.regions[i].Owner = sm.last.client
       /\ sm.regions[i].PathIDs = <<"s1", "s2">>
       /\ sm.regions[j].Owner # sm.last.client

\* C27: same-owner regions merge on overlap. After any sequence of ClaimSpace
\* calls no two distinct regions of the region list that have the same owner
\* overlap each other.
C27_SameOwnerRegionsDisjoint ==
  \A i, j \in 1..Len(sm.regions) :
    i # j /\ sm.regions[i].Owner = sm.regions[j].Owner =>
      ~SharePoint(sm.regions[i].Area, sm.regions[j].Area)
\* C28: an AllocateSpace call that finds no free candidate returns none and
\* has no side effect: the owner's previously allocated area (if any), every
\* other owner's allocation and the region list are the same after the call
\* as before it.
C28_FailedAllocateNoEffect ==
  [][sm'.last.op = "AllocateSpace" /\ sm'.last.ret = <<>> =>
       /\ sm'.regions = sm.regions
       /\ sm'.allocatedAreas = sm.allocatedAreas]_vars

\* a call by an owner that holds an allocated area returned none
C28_Witness ==
  /\ sm.last.op = "AllocateSpace" /\ sm.last.ret = <<>>
  /\ sm.last.client \in DOMAIN sm.allocatedAreas
  /\ \E o \in DOMAIN sm.allocatedAreas : o # sm.last.client
\* C29: the remote-operation callback fires only after a successful Apply.
\* For every inbound operation OnRemoteOp is invoked only if the operation
\* was applied to the store and Apply returned true; rejected operations
\* (duplicate insert, delete of a missing target, unknown kind) never
\* trigger it.
C29_CallbackOnlyAfterApply ==
  \A i \in 1..Len(echo.fired) : echo.fired[i].applied
\* C30 as stated: the Lamport counter is monotonically increasing per site.
\* Under any interleaving of concurrent EmitLocal calls in one process every
\* emitted operation carries the same site ID and a Lamport value that is
\* distinct from and greater than the value of every operation emitted
\* before it.
C30_LamportMonotonic ==
  \A i, j \in 1..Len(clk.emitted) :
    /\ clk.emitted[i].Site = clk.emitted[j].Site
    /\ i < j => clk.emitted[i].Lamport < clk.emitted[j].Lamport

\* C30 amended: every emitted operation carries the same site ID and a
\* Lamport value distinct from that of every other emitted operation, and
\* greater than the value of every operation that had been emitted when its
\* own EmitLocal call took its value from the counter.
C30_LamportUniqueAndOrdered ==
  \A i, j \in 1..Len(clk.emitted) :
    /\ clk.emitted[i].Site = clk.emitted[j].Site
    /\ i # j => clk.emitted[i].Lamport # clk.emitted[j].Lamport
    /\ i <= clk.emitted[j].seen => clk.emitted[i].Lamport < clk.emitted[j].Lamport

\* three operations were emitted by overlapping calls, one of them after an
\* operation that had left before its call began
C30_Witness ==
  /\ Len(clk.emitted) >= 3
  /\ \E i, j \in 1..Len(clk.emitted) :
       i < j /\ clk.emitted[i].Lamport > clk.emitted[j].Lamport
  /\ \E j \in 1..Len(clk.emitted) : clk.emitted[j].seen > 0
\* C32: BoardState.Apply returns true exactly when it changed the store. An
\* accepted Insert adds one stroke and an accepted Delete removes one; an
\* operation of any kind other than insert_stroke or delete_stroke, a Delete
\* with an empty or absent target and a rejected Insert all return false
\* with the store unchanged.
ApplyOutcome(op, r) ==
  /\ r.ret <=> StoreOf(r) # store
  /\ r.ret /\ op.Type = OpInsertStroke =>
       /\ op.Stroke[1].ID \notin DOMAIN strokes
       /\ DOMAIN r.strokes = DOMAIN strokes \cup {op.Stroke[1].ID}
  /\ r.ret /\ op.Type = OpDeleteStroke =>
       /\ op.Target \in DOMAIN strokes
       /\ DOMAIN r.strokes = DOMAIN strokes \ {op.Target}
  /\ op.Type \notin {OpInsertStroke, OpDeleteStroke} => ~r.ret
  /\ op.Type = OpDeleteStroke
       /\ (op.Target = "" \/ op.Target \notin DOMAIN strokes) => ~r.ret

C32_ApplyTrueIffChanged ==
  \A op \in Ops : ApplyOutcome(op, Apply(store, op))

\* an operation of another kind was rejected by a store that holds strokes
C32_Witness ==
  /\ last.call = "Apply" /\ last.kind = "noop" /\ last.ret = "false"
  /\ DOMAIN strokes # {}
\* C33: store invariant. After any sequence of Apply and Load calls the order
\* list contains each stored stroke ID exactly once and nothing else (it is a
\* permutation of the keys of the stroke map), so Strokes() never returns
\* two strokes with the same ID and never a stroke with an empty ID.
C33_OrderIsPermutation ==
  /\ {order[i] : i \in 1..Len(order)} = DOMAIN strokes
  /\ \A i, j \in 1..Len(order) : order[i] = order[j] => i = j
  /\ LET out == Strokes(store)
     IN /\ \A i, j \in 1..Len(out) : out[i].ID = out[j].ID => i = j
        /\ \A i \in 1..Len(out) : out[i].ID # ""

\* C38: WhiteboardState keeps its clock ahead of what it has seen: after
\* AddRemotePath accepts a path whose ID is path-<site>-<T>, the clock is at
\* least T, so the next AddLocalPath gets a timestamp greater than T.
C38_ClockAheadOfAccepted ==
  (wb.last.call = "AddRemotePath" /\ wb.last.ret) => wb.clock >= wb.last.T

\* C38, second half: no call of the WhiteboardState makes the clock smaller.
C38_ClockNeverDecreases == [][wb'.clock >= wb.clock]_vars


\* C39: every area AllocateSpace grants, the requested rectangle or an
\* alternative, lies within the canvas, so every entry of the allocated-area
\* map is in bounds.
C39_GrantedInBounds ==
  /\ \A c \in DOMAIN sm.allocatedAreas : isAreaInBounds(sm.allocatedAreas[c])
  /\ sm.last.op = "AllocateSpace" /\ sm.last.ret # <<>> =>
       isAreaInBounds(sm.last.ret[1])


\* C37: the read loop of PeerManager never blocks on its message queue. A
\* message framed while the Messages channel holds its capacity of 100
\* messages is dropped and the loop goes on reading; every other framed
\* message is queued; and the messages of the connection that were queued
\* reach the consumer in the order in which they were received.
Queued(r) ==
  LET kept == {i \in 1..Len(r.occ) : r.occ[i] < ChanCap}
      F[i \in 0..Len(r.occ)] ==
        IF i = 0 THEN <<>>
        ELSE IF i \in kept THEN Append(F[i - 1], r.framed[i]) ELSE F[i - 1]
  IN F[Len(r.occ)]

OfConn(ch) ==
  LET own == SelectSeq(ch, LAMBDA msg : msg.ClientID = Addr)
  IN [i \in 1..Len(own) |-> own[i].Data]

C37_NonBlockingQueue ==
  rl.kind = "peerManager" =>
    /\ ~rl.stuck
    /\ Len(rl.chan) <= ChanCap
    /\ Len(rl.occ) = Len(rl.framed)
    /\ rl.framed = SubSeq(NonEmpty(rl.sent), 1, Len(rl.framed))
    /\ rl.taken \o OfConn(rl.chan) = Queued(rl)
    /\ rl.wire = <<>> => rl.framed = NonEmpty(rl.sent)

\* the channel was full when the first message was framed, which was
\* dropped; the consumer then received, and the two later messages, which
\* differ, were queued; all the bytes have been read
C37_Witness ==
  /\ rl.kind = "peerManager"
  /\ Len(rl.framed) = 3 /\ rl.framed[2] # rl.framed[3]
  /\ rl.occ[1] = ChanCap /\ rl.occ[2] < ChanCap /\ rl.occ[3] < ChanCap
  /\ OfConn(rl.chan) = SubSeq(rl.framed, 2, 3)
  /\ rl.wire = <<>>


\* C34: reads see a consistent snapshot. A Strokes() call that runs
\* concurrently with Apply or Load calls returns what the store held either
\* entirely before or entirely after each of those mutations, never a mix:
\* its result is the result for one of the contents the store had between
\* mutations while the call ran, and while a reader holds the lock the store
\* is not in the middle of a mutation.
C34_ConsistentSnapshot ==
  /\ rd.returned => rd.ret \in rd.seen
  /\ rd.mu.r > 0 => (~rd.mu.w /\ rd.state = rd.committed)
  /\ (rd.wpc = "held" /\ rd.todo = <<>>) =>
       rd.state = IF rd.call.fn = "restore" THEN restore(rd.call.loaded)
                  ELSE StoreOf(Apply(rd.committed, rd.call.op[1]))

\* a Strokes() call that started while a restore of two strokes held the
\* lock, waited for it and returned both strokes, sorted by time
C34_Witness ==
  /\ rd.returned
  /\ Cardinality(rd.seen) = 2
  /\ rd.ret = <<SB, SA>>
  /\ rd.call.fn = "restore"


\* C31: peers converge on the same picture. For any interleaving of a client
\* joining (registration, delayed sync_state) with draws of the host and
\* relayed draws, once every message sent has been delivered and nobody draws
\* any more, the paths of the client are the paths of the host.
Quiescent ==
  /\ \A c \in HostClients : hc.wire[c] = <<>> /\ hc.cli[c].out = <<>>
  /\ \A g \in HostGoroutines : hc.bc[g].pc \in {"none", "idle"}
  /\ \A c \in HostClients : hc.sy[c].pc \in {"none", "done"}

NoClears == ~hc.cleared /\ \A c \in HostClients : hc.cli[c].clearN = 0

C31_Converge ==
  (Quiescent /\ NoClears) =>
    \A c \in HostClients : hc.cli[c].st = "conn" => hc.cli[c].board = hc.board


C36_SenderGetsClearBack ==
  Quiescent =>
    \A c \in HostClients : hc.cli[c].clearN > 0 => hc.cli[c].ownClear

\* C40: per-sender FIFO relay. Every other client receives the draw and clear
\* messages the host relays from a client c in the order in which c sent
\* them, whatever relays from other clients and broadcasts of the host come in
\* between; the same holds for the messages of the host.
NumbersFrom(stream, s) ==
  LET own == SelectSeq(stream, LAMBDA msg : msg.from = s)
  IN [i \in 1..Len(own) |-> own[i].n]

====
